---- MODULE Spec2Model ----
(***************************************************************************)
(* Agentic Commerce Protocol demo: the Merchant service (checkout session  *)
(* state machine, pricing, idempotency middleware) and the PSP service     *)
(* (vault tokens, payment intents, idempotency store), with HTTP requests  *)
(* interleaving at every await of their handlers.                          *)
(***************************************************************************)
EXTENDS Integers, Sequences, FiniteSets, TLC

VARIABLES
  now,                \* wall clock, in units of the Merchant idempotency TTL
  issued,             \* number of HTTP requests received so far
  reqs,               \* request slot -> the request being handled in it
  vault_tokens,       \* PSP table vault_tokens, indexed by token id
  payment_intents,    \* PSP table payment_intents, indexed by intent id
  idempotency_store,  \* PSP table idempotency_store, keyed by idempotency key
  checkout_sessions,  \* Merchant table checkout_sessions (+ line_items), by id
  orders,             \* Merchant table orders, indexed by order id
  cache,              \* Merchant IdempotencyService.cache, keyed by key
  pricing,            \* a call of the pricing functions: arguments and results
  activeSessions,     \* MerchantSessionService.activeSessions, by MCP session id
  mcpCall             \* the MerchantSessionService call waiting for its response

vars == <<now, issued, reqs, vault_tokens, payment_intents, idempotency_store,
          checkout_sessions, orders, cache, pricing, activeSessions, mcpCall>>

(***************************************************************************)
(* Bounds of the model.                                                    *)
(***************************************************************************)
MaxReq == 4          \* requests the PSP receives in one run
MaxReqSeq == 3       \* requests received in one run, one at a time
MaxReqMerchant == 3  \* requests the Merchant receives in one run
MaxInFlight == 2     \* requests handled at the same time
MaxTime == 2         \* clock ticks in one run
MaxQuantity == 5     \* largest quantity priced on its own
MaxReqRollback == 2  \* requests received in a run whose order transaction can fail
MaxReqPayment == 3   \* payment calls the PSP receives in a run of payments only

Slots == 1..MaxInFlight
Keys == {"k1", "k2"}                \* client-supplied idempotency keys
None == "none"                      \* undefined / null / absent
Far == MaxTime + 1                  \* a time the clock does not reach

(***************************************************************************)
(* Product catalog (read-only collaborator).                               *)
(***************************************************************************)
Catalog ==
  [item_123 |-> [base_price |-> 2999, available_quantity |-> 2, requires_shipping |-> TRUE],
   ebook_1  |-> [base_price |-> 999,  available_quantity |-> 2, requires_shipping |-> FALSE]]

ProductIds == DOMAIN Catalog

\* ProductCatalog.getProduct: the row, or null
HasProduct(id) == id \in ProductIds

\* ProductCatalog.checkAvailability
CheckAvailability(id, quantity) ==
  HasProduct(id) /\ Catalog[id].available_quantity >= quantity

(***************************************************************************)
(* PricingCalculator.                                                      *)
(***************************************************************************)
\* The line item priced for one unit whatever the quantity
BuildLineItemOneUnit(item) ==
  LET base_amount == Catalog[item.id].base_price
  IN [id |-> item.id, quantity |-> item.quantity, base_amount |-> base_amount,
      discount |-> 0, subtotal |-> base_amount, tax |-> 0, total |-> base_amount]

\* PricingCalculator.calculateLineItem / buildLineItem
BuildLineItem(item) ==
  LET base_amount == Catalog[item.id].base_price * item.quantity
      discount == 0
      subtotal == base_amount - discount
      tax == 0
  IN [id |-> item.id, quantity |-> item.quantity, base_amount |-> base_amount,
      discount |-> discount, subtotal |-> subtotal, tax |-> tax,
      total |-> subtotal + tax]

\* Math.round(x * 0.10) for a non-negative integer x
RoundTenth(x) == (x + 5) \div 10

\* calculateTax taxing every address
CalculateTaxAnyState(subtotal, address) ==
  IF address = None THEN 0 ELSE RoundTenth(subtotal)

\* PricingCalculator.calculateTax
CalculateTax(subtotal, address) ==
  IF address = None THEN 0
  ELSE IF address = "CA" THEN RoundTenth(subtotal)
  ELSE 0

RECURSIVE SumField(_, _)
SumField(seq, f) ==
  IF seq = <<>> THEN 0 ELSE Head(seq)[f] + SumField(Tail(seq), f)

\* The totals array with its tax entry emitted also when the tax is 0
CalculateTotalsAlwaysTax(lineItems, fulfillmentCost, address) ==
  LET subtotal == SumField(lineItems, "base_amount") - SumField(lineItems, "discount")
      tax == CalculateTax(subtotal + fulfillmentCost, address)
  IN  <<[type |-> "items_base_amount", amount |-> SumField(lineItems, "base_amount")],
        [type |-> "subtotal", amount |-> subtotal]>>
      \o (IF fulfillmentCost > 0
            THEN <<[type |-> "fulfillment", amount |-> fulfillmentCost]>> ELSE <<>>)
      \o <<[type |-> "tax", amount |-> tax],
           [type |-> "total", amount |-> subtotal + fulfillmentCost + tax]>>

\* PricingCalculator.calculateTotals: the sparse, ordered totals array
CalculateTotals(lineItems, fulfillmentCost, address) ==
  LET items_base_amount == SumField(lineItems, "base_amount")
      items_discount == SumField(lineItems, "discount")
      subtotal == items_base_amount - items_discount
      taxable_amount == subtotal + fulfillmentCost
      tax == CalculateTax(taxable_amount, address)
      total == subtotal + fulfillmentCost + tax
  IN  <<[type |-> "items_base_amount", amount |-> items_base_amount]>>
      \o (IF items_discount > 0
            THEN <<[type |-> "items_discount", amount |-> -items_discount]>> ELSE <<>>)
      \o <<[type |-> "subtotal", amount |-> subtotal]>>
      \o (IF fulfillmentCost > 0
            THEN <<[type |-> "fulfillment", amount |-> fulfillmentCost]>> ELSE <<>>)
      \o (IF tax > 0 THEN <<[type |-> "tax", amount |-> tax]>> ELSE <<>>)
      \o <<[type |-> "total", amount |-> total]>>

\* totals.find(t => t.type === type)?.amount || 0
TotalsAmount(totals, type) ==
  IF \E i \in 1..Len(totals) : totals[i].type = type
    THEN totals[CHOOSE i \in 1..Len(totals) : totals[i].type = type].amount
    ELSE 0

(***************************************************************************)
(* FulfillmentManager.                                                     *)
(***************************************************************************)
\* generateOptions listing the express option first
GenerateOptionsExpressFirst(requiresShipping, address) ==
  IF requiresShipping
    THEN IF address = None THEN <<>>
         ELSE <<[id |-> "express_shipping", type |-> "shipping", subtotal |-> 1500,
                 tax |-> CalculateTax(1500, address),
                 total |-> 1500 + CalculateTax(1500, address)],
                [id |-> "standard_shipping", type |-> "shipping", subtotal |-> 500,
                 tax |-> CalculateTax(500, address),
                 total |-> 500 + CalculateTax(500, address)]>>
    ELSE <<[id |-> "digital_delivery", type |-> "digital", subtotal |-> 0,
            tax |-> 0, total |-> 0]>>

\* FulfillmentManager.generateOptions
GenerateOptions(requiresShipping, address) ==
  IF requiresShipping
    THEN IF address = None THEN <<>>
         ELSE <<[id |-> "standard_shipping", type |-> "shipping", subtotal |-> 500,
                 tax |-> CalculateTax(500, address),
                 total |-> 500 + CalculateTax(500, address)],
                [id |-> "express_shipping", type |-> "shipping", subtotal |-> 1500,
                 tax |-> CalculateTax(1500, address),
                 total |-> 1500 + CalculateTax(1500, address)]>>
    ELSE <<[id |-> "digital_delivery", type |-> "digital", subtotal |-> 0,
            tax |-> 0, total |-> 0]>>

\* FulfillmentManager.selectDefaultOption
SelectDefaultOption(options) ==
  IF options = <<>> THEN None ELSE options[1].id

\* FulfillmentManager.validateOption
ValidateOption(optionId, options) ==
  \E i \in 1..Len(options) : options[i].id = optionId

\* FulfillmentManager.getFulfillmentCost
GetFulfillmentCost(optionId, options) ==
  IF optionId = None THEN 0
  ELSE IF ~ValidateOption(optionId, options) THEN 0
  ELSE options[CHOOSE i \in 1..Len(options) : options[i].id = optionId].subtotal

(***************************************************************************)
(* Requests.  A body is its JSON value (c) and the order in which the      *)
(* client serialised its object keys (ord).                                *)
(***************************************************************************)
NoItems == [given |-> FALSE, list |-> <<>>]

\* The allowance of a body that has none
NoAllowance == [max_amount |-> 0, currency |-> None, expires_at |-> 0, reason |-> None]

EmptyContent ==
  [items |-> NoItems, fulfillment_address |-> None, fulfillment_option_id |-> None,
   buyer |-> None, token |-> 0, allowance |-> NoAllowance, amount |-> 0, currency |-> None,
   risk_signals |-> <<>>]

EmptyBody == [ord |-> 1, c |-> EmptyContent]

NoResp == [status |-> 0, code |-> None, body |-> [id |-> 0]]

\* A CheckoutSession value that stands for "no session"
NoSession ==
  [id |-> 0, buyer |-> None, status |-> None, line_items |-> <<>>,
   fulfillment_address |-> None,
   fulfillment_options |-> <<>>, fulfillment_option_id |-> None, totals |-> <<>>,
   messages |-> <<>>, order |-> 0]

\* A handler's local variables: the status and buyer it read, the PSP's
\* verdict, the session it built, and the payment it asked for
EmptyLoc == [seen |-> None, buyer |-> None, psp |-> None, next |-> NoSession,
             token |-> 0, amount |-> 0, currency |-> None, intent |-> 0,
             at |-> 0]

IdleReq == [pc |-> "idle", kind |-> None, key |-> None, body |-> EmptyBody,
            sid |-> 0, loc |-> EmptyLoc, resp |-> NoResp]

\* crypto.createHash('sha256').update(s).digest('hex'), taken as collision-free
Sha256(s) == [digest |-> s]

ErrorBody(code) == [id |-> 0, error |-> code]

Done(r, status, code, body) ==
  [reqs[r] EXCEPT !.pc = "done", !.resp = [status |-> status, code |-> code, body |-> body]]

InFlight == {r \in Slots : reqs[r].pc \notin {"idle", "done"}}

\* The clients of a run: how many requests they send (max), how many at the
\* same time (lim), the idempotency keys and key orders they use, and
\* whether they also send requests that fail validation (bad)
PspClients ==
  [lim |-> MaxInFlight, max |-> MaxReq, keys |-> Keys, ords |-> {1}, bad |-> FALSE]
PspSeqClients == [PspClients EXCEPT !.lim = 1, !.bad = TRUE]
SeqClients ==
  [lim |-> 1, max |-> MaxReqSeq, keys |-> Keys, ords |-> {1}, bad |-> TRUE]
MerchantClients ==
  [lim |-> MaxInFlight, max |-> MaxReqMerchant, keys |-> Keys, ords |-> {1},
   bad |-> FALSE]

\* A request is accepted into the lowest free slot (one whose response has
\* been sent) while fewer than lim are in flight
CanStart(r, P) ==
  /\ reqs[r].pc \in {"idle", "done"}
  /\ \A q \in Slots : q < r => reqs[q].pc \notin {"idle", "done"}
  /\ Cardinality(InFlight) < P.lim
  /\ issued < P.max

NewReq(kind, key, body, sid) ==
  [IdleReq EXCEPT !.kind = kind, !.key = key, !.body = body, !.sid = sid]

(***************************************************************************)
(* PSP: IdempotencyService (table idempotency_store).                      *)
(***************************************************************************)
\* IdempotencyService.generateRequestHash: keys sorted recursively, then hashed
GenerateRequestHash(body) == Sha256(body.c)

\* checkIdempotency that never finds the stored response of a repeated request
CheckIdempotencyNoReplay(idempotencyKey, requestBody) ==
  IF idempotencyKey \notin DOMAIN idempotency_store THEN "new"
  ELSE IF idempotency_store[idempotencyKey].request_hash # GenerateRequestHash(requestBody)
    THEN "conflict"
  ELSE "new"

\* IdempotencyService.checkIdempotency: "new", "conflict" or "cached"
CheckIdempotency(idempotencyKey, requestBody) ==
  IF idempotencyKey \notin DOMAIN idempotency_store THEN "new"
  ELSE IF idempotency_store[idempotencyKey].request_hash # GenerateRequestHash(requestBody)
    THEN "conflict"
  ELSE "cached"

\* IdempotencyService.storeResponse: INSERT ... ON CONFLICT (idempotency_key) DO NOTHING
StoreResponse(idempotencyKey, requestBody, responseStatus, responseBody) ==
  IF idempotencyKey \in DOMAIN idempotency_store THEN idempotency_store
  ELSE (idempotencyKey :> [request_hash |-> GenerateRequestHash(requestBody),
                           response_status |-> responseStatus,
                           response_body |-> responseBody]) @@ idempotency_store

(***************************************************************************)
(* Merchant: IdempotencyService (in-memory cache) and the handleIdempotency*)
(* middleware.                                                             *)
(***************************************************************************)
TtlMs == 1     \* 24 hours, the unit of the clock

\* IdempotencyService.hashRequest: JSON.stringify keeps the keys in the
\* order the client wrote them
HashRequest(body) == Sha256(<<body.ord, body.c>>)

\* age > this.ttlMs
Expired(record) == now - record.timestamp > TtlMs

\* check without the comparison of the request hashes
CheckIgnoringHash(idempotencyKey, requestBody) ==
  IF idempotencyKey \notin DOMAIN cache THEN "new"
  ELSE IF Expired(cache[idempotencyKey]) THEN "new"
  ELSE "cached"

\* IdempotencyService.check: "new", "conflict" (throws) or "cached"
Check(idempotencyKey, requestBody) ==
  IF idempotencyKey \notin DOMAIN cache THEN "new"
  ELSE IF Expired(cache[idempotencyKey]) THEN "new"
  ELSE IF HashRequest(requestBody) # cache[idempotencyKey].requestHash THEN "conflict"
  ELSE "cached"

\* IdempotencyService.check deletes the record it finds expired
CacheAfterCheck(idempotencyKey) ==
  IF idempotencyKey \in DOMAIN cache /\ Expired(cache[idempotencyKey])
    THEN [k \in DOMAIN cache \ {idempotencyKey} |-> cache[k]]
    ELSE cache

\* IdempotencyService.save: cache.set overwrites
Save(idempotencyKey, requestBody, responseStatus, responseBody) ==
  [k \in DOMAIN cache \cup {idempotencyKey} |->
     IF k = idempotencyKey
       THEN [requestHash |-> HashRequest(requestBody), responseStatus |-> responseStatus,
             responseBody |-> responseBody, timestamp |-> now]
       ELSE cache[k]]

\* The status of the response to a key reused with another body
ConflictStatus == 400

\* The res.json that handleIdempotency wraps around the handler's: the
\* response is saved under the key when its status is 2xx
ResJsonAnyStatus(idempotencyKey, requestBody, responseStatus, responseBody) ==
  Save(idempotencyKey, requestBody, responseStatus, responseBody)

ResJson(idempotencyKey, requestBody, responseStatus, responseBody) ==
  IF responseStatus >= 200 /\ responseStatus < 300
    THEN Save(idempotencyKey, requestBody, responseStatus, responseBody)
    ELSE cache

\* The cache after a step of request r of the Merchant: res.json has run if
\* the step sent the response
ResJsonOf(r) ==
  cache' = IF reqs'[r].pc = "done"
             THEN ResJson(reqs[r].key, reqs[r].body, reqs'[r].resp.status,
                          reqs'[r].resp.body)
             ELSE cache

(***************************************************************************)
(* PSP: POST /agentic_commerce/delegate_payment.                           *)
(***************************************************************************)
Allowances ==
  { [max_amount |-> 1000, currency |-> "usd", expires_at |-> Far, reason |-> "one_time"],
    [max_amount |-> 5000, currency |-> "usd", expires_at |-> 0,   reason |-> "one_time"],
    [max_amount |-> 5000, currency |-> "eur", expires_at |-> Far, reason |-> "one_time"] }

\* risk_signals of a well-formed request
RiskSignals == <<[type |-> "card_testing", score |-> 10, action |-> "authorized"]>>

DelegateBodies(ords) ==
  { [ord |-> o, c |-> [EmptyContent EXCEPT !.allowance = a,
                                            !.risk_signals = RiskSignals]] :
      o \in ords, a \in Allowances }

\* A body that validateAllowance refuses, a body with a risk signal whose
\* action is not one of the three, and a body with no risk signal
InvalidDelegateBodies(ords) ==
  { [ord |-> o, c |-> [EmptyContent EXCEPT
       !.allowance = [max_amount |-> 1000, currency |-> "usd", expires_at |-> Far,
                      reason |-> x[1]],
       !.risk_signals = x[2]]] :
      o \in ords,
      x \in { <<"subscription", RiskSignals>>,
              <<"one_time", <<[type |-> "card_testing", score |-> 10,
                               action |-> "allow"]>>>>,
              <<"one_time", <<>>>> } }

\* validateRequiredHeaders, for the Idempotency-Key header: the code, or "ok"
ValidateRequiredHeaders(idempotencyKey) ==
  IF idempotencyKey = None THEN "missing_header" ELSE "ok"

\* validateAllowance accepting every reason
ValidateAllowanceAnyReason(allowance) == "ok"

\* validateAllowance, for an allowance that is present: the code, or "ok"
ValidateAllowance(allowance) ==
  IF allowance.reason # "one_time" THEN "invalid_allowance_reason" ELSE "ok"

\* validateRiskSignals, for a list that is present: the code, or "ok"
ValidateRiskSignals(riskSignals) ==
  IF \E i \in 1..Len(riskSignals) :
       riskSignals[i].action \notin {"blocked", "manual_review", "authorized"}
    THEN "invalid_enum_value"
    ELSE "ok"

\* validateRequestBody: the code of the error, or "ok"
ValidateRequestBody(body) ==
  IF ValidateAllowance(body.c.allowance) # "ok"
    THEN ValidateAllowance(body.c.allowance)
    ELSE ValidateRiskSignals(body.c.risk_signals)

\* The route's two validations, headers first
ValidateDelegate(idempotencyKey, body) ==
  IF ValidateRequiredHeaders(idempotencyKey) # "ok"
    THEN ValidateRequiredHeaders(idempotencyKey)
    ELSE ValidateRequestBody(body)

UnchangedMerchant == UNCHANGED <<checkout_sessions, orders, cache>>

\* The handler up to and including the idempotency lookup
DelegateStart(r, P) ==
  /\ CanStart(r, P)
  /\ \E key \in P.keys \cup (IF P.bad THEN {None} ELSE {}),
        body \in DelegateBodies(P.ords)
                \cup (IF P.bad THEN InvalidDelegateBodies(P.ords) ELSE {}) :
       LET q == NewReq("delegate", key, body, 0)
           invalid == ValidateDelegate(key, body)
           found == IF invalid # "ok" THEN "invalid" ELSE CheckIdempotency(key, body)
       IN reqs' = [reqs EXCEPT ![r] =
            IF found = "invalid"
              THEN [q EXCEPT !.pc = "done",
                     !.resp = [status |-> 400, code |-> invalid,
                               body |-> ErrorBody(invalid)]]
            ELSE IF found = "cached"
              THEN [q EXCEPT !.pc = "done",
                     !.resp = [status |-> idempotency_store[key].response_status,
                               code |-> "ok",
                               body |-> idempotency_store[key].response_body]]
            ELSE IF found = "conflict"
              THEN [q EXCEPT !.pc = "done",
                     !.resp = [status |-> 409, code |-> "idempotency_conflict",
                               body |-> ErrorBody("idempotency_conflict")]]
            ELSE [q EXCEPT !.pc = "dp_create"]]
  /\ issued' = issued + 1
  /\ UNCHANGED <<pricing, activeSessions, mcpCall, now, vault_tokens, payment_intents, idempotency_store>>
  /\ UnchangedMerchant

\* VaultTokenService.generateVaultTokenId: `vt_${randomId}`; the random part
\* is taken as unique, and the tables and requests refer to a token by it
GenerateVaultTokenId(randomId) == [prefix |-> "vt_", randomId |-> randomId]

\* createVaultToken on a table without UNIQUE (idempotency_key)
CreateVaultTokenNoUnique(r) ==
  /\ reqs[r].pc = "dp_create"
  /\ vault_tokens' = Append(vault_tokens,
       [id |-> GenerateVaultTokenId(Len(vault_tokens) + 1),
        allowance |-> reqs[r].body.c.allowance,
        idempotency_key |-> reqs[r].key,
        status |-> "active"])
  /\ reqs' = [reqs EXCEPT ![r].pc = "dp_store",
                          ![r].loc.token = Len(vault_tokens) + 1]
  /\ UNCHANGED <<pricing, activeSessions, mcpCall, now, issued, payment_intents, idempotency_store>>
  /\ UnchangedMerchant

\* VaultTokenService.createVaultToken: the INSERT fails on UNIQUE (idempotency_key)
CreateVaultToken(r) ==
  /\ reqs[r].pc = "dp_create"
  /\ IF \E t \in 1..Len(vault_tokens) : vault_tokens[t].idempotency_key = reqs[r].key
       THEN /\ reqs' = [reqs EXCEPT ![r] =
                 Done(r, 500, "duplicate_request", ErrorBody("duplicate_request"))]
            /\ UNCHANGED vault_tokens
       ELSE /\ vault_tokens' = Append(vault_tokens,
                 [id |-> GenerateVaultTokenId(Len(vault_tokens) + 1),
                  allowance |-> reqs[r].body.c.allowance,
                  idempotency_key |-> reqs[r].key,
                  status |-> "active"])
            /\ reqs' = [reqs EXCEPT ![r].pc = "dp_store",
                                    ![r].loc.token = Len(vault_tokens) + 1]
  /\ UNCHANGED <<pricing, activeSessions, mcpCall, now, issued, payment_intents, idempotency_store>>
  /\ UnchangedMerchant

\* IdempotencyService.storeResponse, then res.status(201).json(responseBody)
DelegateStore(r) ==
  /\ reqs[r].pc = "dp_store"
  /\ LET responseBody == [id |-> reqs[r].loc.token,
                          idempotency_key |-> reqs[r].key]
     IN /\ idempotency_store' = StoreResponse(reqs[r].key, reqs[r].body, 201, responseBody)
        /\ reqs' = [reqs EXCEPT ![r] = Done(r, 201, "ok", responseBody)]
  /\ UNCHANGED <<pricing, activeSessions, mcpCall, now, issued, vault_tokens, payment_intents>>
  /\ UnchangedMerchant

(***************************************************************************)
(* PSP: PaymentIntentService, POST create_and_process_payment_intent.      *)
(* The merchant's complete handler runs the same steps through             *)
(* PaymentService.processPayment.                                          *)
(***************************************************************************)
Amounts == {999, 3299}
Currencies == {"usd", "eur"}

\* validateVaultToken without the check of status = 'consumed'
ValidateVaultTokenNoConsumed(vaultTokenId) ==
  IF vaultTokenId \notin 1..Len(vault_tokens) THEN "invalid_vault_token"
  ELSE IF vault_tokens[vaultTokenId].allowance.expires_at < now THEN "vault_token_expired"
  ELSE "ok"

\* validateVaultToken checking the expiry before the status
ValidateVaultTokenExpiryFirst(vaultTokenId) ==
  IF vaultTokenId \notin 1..Len(vault_tokens) THEN "invalid_vault_token"
  ELSE IF vault_tokens[vaultTokenId].allowance.expires_at < now THEN "vault_token_expired"
  ELSE IF vault_tokens[vaultTokenId].status = "consumed" THEN "vault_token_already_used"
  ELSE "ok"

\* PaymentIntentService.validateVaultToken: the error code thrown, or "ok"
ValidateVaultToken(vaultTokenId) ==
  IF vaultTokenId \notin 1..Len(vault_tokens) THEN "invalid_vault_token"
  ELSE IF vault_tokens[vaultTokenId].status = "consumed" THEN "vault_token_already_used"
  ELSE IF vault_tokens[vaultTokenId].allowance.expires_at < now THEN "vault_token_expired"
  ELSE "ok"

\* validatePaymentDetails without the check of the amount
ValidatePaymentDetailsNoAmount(amount, currency, allowance) ==
  IF currency # allowance.currency THEN "currency_mismatch"
  ELSE IF allowance.reason # "one_time" THEN "invalid_allowance"
  ELSE "ok"

\* PaymentIntentService.validatePaymentDetails: the error code thrown, or "ok"
ValidatePaymentDetails(amount, currency, allowance) ==
  IF amount > allowance.max_amount THEN "amount_exceeds_allowance"
  ELSE IF currency # allowance.currency THEN "currency_mismatch"
  ELSE IF allowance.reason # "one_time" THEN "invalid_allowance"
  ELSE "ok"

\* The response to a failed PSP call: the route answers 400 with the error body;
\* in complete, processPayment rethrows it as a plain object, which the
\* controller's catch maps to 500 internal_error
PaymentFailed(r, code) ==
  IF reqs[r].kind = "charge"
    THEN [Done(r, 400, code, ErrorBody(code)) EXCEPT !.loc.psp = code]
    ELSE [Done(r, 500, "internal_error", ErrorBody("internal_error")) EXCEPT !.loc.psp = code]

\* A merchant server calls the endpoint directly
ChargeStart(r, P) ==
  /\ CanStart(r, P)
  /\ \E token \in 0..Len(vault_tokens), amount \in Amounts, currency \in Currencies :
       reqs' = [reqs EXCEPT ![r] =
         [NewReq("charge", None, EmptyBody, 0) EXCEPT
            !.pc = "pi_validate", !.loc.token = token,
            !.loc.amount = amount, !.loc.currency = currency,
            !.loc.at = now]]
  /\ issued' = issued + 1
  /\ UNCHANGED <<pricing, activeSessions, mcpCall, now, vault_tokens, payment_intents, idempotency_store>>
  /\ UnchangedMerchant

\* createAndProcessPaymentIntent steps 1-2: SELECT the token, validate
PaymentValidate(r) ==
  /\ reqs[r].pc = "pi_validate"
  /\ LET q == reqs[r].loc
         e1 == ValidateVaultToken(q.token)
         e2 == IF e1 # "ok" THEN e1
               ELSE ValidatePaymentDetails(q.amount, q.currency,
                                           vault_tokens[q.token].allowance)
     IN reqs' = [reqs EXCEPT ![r] =
          IF e2 # "ok" THEN PaymentFailed(r, e2)
          ELSE [reqs[r] EXCEPT !.pc = "pi_insert", !.loc.psp = "ok"]]
  /\ IF reqs[r].kind = "complete" THEN ResJsonOf(r) ELSE UNCHANGED cache
  /\ UNCHANGED <<pricing, activeSessions, mcpCall, now, issued, vault_tokens, payment_intents, idempotency_store>>
  /\ UNCHANGED <<checkout_sessions, orders>>

\* step 3: INSERT INTO payment_intents ... 'pending'
PaymentInsert(r) ==
  /\ reqs[r].pc = "pi_insert"
  /\ payment_intents' = Append(payment_intents,
       [vault_token_id |-> reqs[r].loc.token, status |-> "pending",
        amount |-> reqs[r].loc.amount, currency |-> reqs[r].loc.currency])
  /\ reqs' = [reqs EXCEPT ![r].pc = "pi_simulate",
                          ![r].loc.intent = Len(payment_intents) + 1]
  /\ UNCHANGED <<pricing, activeSessions, mcpCall, now, issued, vault_tokens, idempotency_store>>
  /\ UnchangedMerchant

\* step 4: simulatePaymentProcessing, the fixed delay
PaymentSimulate(r) ==
  /\ reqs[r].pc = "pi_simulate"
  /\ reqs' = [reqs EXCEPT ![r].pc = "pi_complete"]
  /\ UNCHANGED <<pricing, activeSessions, mcpCall, now, issued, vault_tokens, payment_intents, idempotency_store>>
  /\ UnchangedMerchant

\* step 5 without its UPDATE
PaymentCompleteKeepingPending(r) ==
  /\ reqs[r].pc = "pi_complete"
  /\ reqs' = [reqs EXCEPT ![r].pc = "pi_invalidate"]
  /\ UNCHANGED <<pricing, activeSessions, mcpCall, now, issued, vault_tokens, payment_intents,
                 idempotency_store>>
  /\ UnchangedMerchant

\* step 5: UPDATE payment_intents SET status = 'completed'
PaymentComplete(r) ==
  /\ reqs[r].pc = "pi_complete"
  /\ payment_intents' = [payment_intents EXCEPT ![reqs[r].loc.intent].status = "completed"]
  /\ reqs' = [reqs EXCEPT ![r].pc = "pi_invalidate"]
  /\ UNCHANGED <<pricing, activeSessions, mcpCall, now, issued, vault_tokens, idempotency_store>>
  /\ UnchangedMerchant

\* An invalidation that flips the status instead of setting it
InvalidateVaultTokenFlipping(vaultTokenId) ==
  [vault_tokens EXCEPT ![vaultTokenId].status =
     IF @ = "consumed" THEN "active" ELSE "consumed"]

\* PaymentIntentService.invalidateVaultToken: the new table
InvalidateVaultToken(vaultTokenId) ==
  [vault_tokens EXCEPT ![vaultTokenId].status = "consumed"]

\* step 6-7: invalidate the token, return the completed intent
PaymentInvalidate(r) ==
  /\ reqs[r].pc = "pi_invalidate"
  /\ vault_tokens' = InvalidateVaultToken(reqs[r].loc.token)
  /\ reqs' = [reqs EXCEPT ![r] =
       IF reqs[r].kind = "charge"
         THEN Done(r, 201, "ok",
                [id |-> reqs[r].loc.intent, status |-> "completed",
                 amount |-> reqs[r].loc.amount, currency |-> reqs[r].loc.currency,
                 vault_token_id |-> reqs[r].loc.token])
         ELSE [reqs[r] EXCEPT !.pc = "co_commit"]]
  /\ UNCHANGED <<pricing, activeSessions, mcpCall, now, issued, payment_intents, idempotency_store>>
  /\ UnchangedMerchant

(***************************************************************************)
(* Merchant: SessionManager.                                               *)
(***************************************************************************)
RECURSIVE ValidateAndBuildLineItems(_)
\* SessionManager.validateAndBuildLineItems
ValidateAndBuildLineItems(items) ==
  IF items = <<>>
    THEN [lineItems |-> <<>>, errors |-> <<>>, requiresShipping |-> FALSE]
    ELSE LET item == Head(items)
             rest == ValidateAndBuildLineItems(Tail(items))
         IN IF ~HasProduct(item.id)
              THEN [rest EXCEPT !.errors =
                      <<[type |-> "error", code |-> "invalid", param |-> item.id]>> \o @]
            ELSE IF ~CheckAvailability(item.id, item.quantity)
              THEN [rest EXCEPT !.errors =
                      <<[type |-> "error", code |-> "out_of_stock", param |-> item.id]>> \o @]
            ELSE [rest EXCEPT !.lineItems = <<BuildLineItem(item)>> \o @,
                              !.requiresShipping = @ \/ Catalog[item.id].requires_shipping]

\* SessionManager.checkIfRequiresShipping: getProduct is async and is not
\* awaited here, so product is a Promise, product?.requires_shipping is
\* undefined and every item yields false
CheckIfRequiresShipping(lineItems) ==
  \E i \in 1..Len(lineItems) : FALSE

\* SessionManager.determineStatus
DetermineStatus(lineItems, requiresShipping, address, fulfillmentOptionId) ==
  IF Len(lineItems) = 0 THEN "not_ready_for_payment"
  ELSE IF requiresShipping /\ (address = None \/ fulfillmentOptionId = None)
    THEN "not_ready_for_payment"
  ELSE "ready_for_payment"

\* SessionManager.generateMessages
GenerateMessages(status, requiresShipping, address) ==
  IF status = "not_ready_for_payment" /\ requiresShipping /\ address = None
    THEN <<[type |-> "info", code |-> None, param |-> "$.fulfillment_address"]>>
    ELSE <<>>

\* SessionManager.buildErrorSession
BuildErrorSession(sessionId, request, errors) ==
  [NoSession EXCEPT !.id = sessionId, !.buyer = request.buyer,
                    !.status = "not_ready_for_payment",
                    !.fulfillment_address = request.fulfillment_address,
                    !.messages = errors]

\* The session object createSession and updateSession build before saving it
BuildSession(sessionId, buyer, lineItems, requiresShipping, address, fulfillmentOptionId) ==
  LET fulfillmentOptions == GenerateOptions(requiresShipping, address)
      fulfillmentCost == GetFulfillmentCost(fulfillmentOptionId, fulfillmentOptions)
      status == DetermineStatus(lineItems, requiresShipping, address, fulfillmentOptionId)
  IN [id |-> sessionId, buyer |-> buyer, status |-> status, line_items |-> lineItems,
      fulfillment_address |-> address, fulfillment_options |-> fulfillmentOptions,
      fulfillment_option_id |-> fulfillmentOptionId,
      totals |-> CalculateTotals(lineItems, fulfillmentCost, address),
      messages |-> GenerateMessages(status, requiresShipping, address),
      order |-> 0]

\* SessionManager.createSession, up to saveSession
CreateSessionObject(sessionId, request) ==
  LET built == ValidateAndBuildLineItems(request.items.list)
      options == GenerateOptions(built.requiresShipping, request.fulfillment_address)
  IN IF Len(built.errors) > 0
       THEN BuildErrorSession(0, request, built.errors)
       ELSE BuildSession(sessionId, request.buyer, built.lineItems, built.requiresShipping,
                         request.fulfillment_address, SelectDefaultOption(options))

\* SessionManager.getSession: the stored row with options and totals recomputed
GetSession(sessionId) ==
  LET row == checkout_sessions[sessionId]
      requiresShipping == CheckIfRequiresShipping(row.line_items)
      fulfillmentOptions == GenerateOptions(requiresShipping, row.fulfillment_address)
      fulfillmentCost == GetFulfillmentCost(row.fulfillment_option_id, fulfillmentOptions)
  IN [id |-> sessionId, buyer |-> row.buyer, status |-> row.status,
      line_items |-> row.line_items,
      fulfillment_address |-> row.fulfillment_address,
      fulfillment_options |-> fulfillmentOptions,
      fulfillment_option_id |-> row.fulfillment_option_id,
      totals |-> CalculateTotals(row.line_items, fulfillmentCost, row.fulfillment_address),
      messages |-> GenerateMessages(row.status, requiresShipping, row.fulfillment_address),
      order |-> row.order_id]

\* updateSession keeping an option id that is not among the regenerated options
UpdateSessionObjectKeepingOption(existingSession, request) ==
  LET buyer == IF request.buyer # None THEN request.buyer ELSE existingSession.buyer
      fulfillmentAddress ==
        IF request.fulfillment_address # None THEN request.fulfillment_address
        ELSE existingSession.fulfillment_address
      built == ValidateAndBuildLineItems(request.items.list)
      lineItems == IF request.items.given THEN built.lineItems
                   ELSE existingSession.line_items
      requiresShipping == IF request.items.given THEN built.requiresShipping
                          ELSE CheckIfRequiresShipping(existingSession.line_items)
      fulfillmentOptions == GenerateOptions(requiresShipping, fulfillmentAddress)
      wanted == IF request.fulfillment_option_id # None
                  THEN request.fulfillment_option_id
                  ELSE existingSession.fulfillment_option_id
      fulfillmentOptionId ==
        IF wanted = None /\ Len(fulfillmentOptions) > 0
          THEN SelectDefaultOption(fulfillmentOptions) ELSE wanted
  IN IF request.items.given /\ Len(built.errors) > 0
       THEN BuildErrorSession(existingSession.id, request, built.errors)
       ELSE BuildSession(existingSession.id, buyer, lineItems, requiresShipping,
                         fulfillmentAddress, fulfillmentOptionId)

\* SessionManager.updateSession, from the merge of the fields to the session built
UpdateSessionObject(existingSession, request) ==
  LET buyer == IF request.buyer # None THEN request.buyer ELSE existingSession.buyer
      fulfillmentAddress ==
        IF request.fulfillment_address # None THEN request.fulfillment_address
        ELSE existingSession.fulfillment_address
      built == ValidateAndBuildLineItems(request.items.list)
      lineItems == IF request.items.given THEN built.lineItems
                   ELSE existingSession.line_items
      requiresShipping == IF request.items.given THEN built.requiresShipping
                          ELSE CheckIfRequiresShipping(existingSession.line_items)
      fulfillmentOptions == GenerateOptions(requiresShipping, fulfillmentAddress)
      wanted == IF request.fulfillment_option_id # None
                  THEN request.fulfillment_option_id
                  ELSE existingSession.fulfillment_option_id
      checked == IF wanted # None /\ ~ValidateOption(wanted, fulfillmentOptions)
                   THEN SelectDefaultOption(fulfillmentOptions) ELSE wanted
      fulfillmentOptionId ==
        IF checked = None /\ Len(fulfillmentOptions) > 0
          THEN SelectDefaultOption(fulfillmentOptions) ELSE checked
  IN IF request.items.given /\ Len(built.errors) > 0
       THEN BuildErrorSession(existingSession.id, request, built.errors)
       ELSE BuildSession(existingSession.id, buyer, lineItems, requiresShipping,
                         fulfillmentAddress, fulfillmentOptionId)

\* No session taken for an error session: each one is saved
IsErrorSessionNever(session) == FALSE

\* Only the error session of a create is returned without being saved
IsErrorSessionOfCreate(session) ==
  /\ session.id = 0
  /\ \E i \in 1..Len(session.messages) : session.messages[i].type = "error"

\* An error session is returned without being saved
IsErrorSession(session) ==
  \E i \in 1..Len(session.messages) : session.messages[i].type = "error"

\* The row saveSession upserts (order_id is session.order?.id); the returned_
\* fields are history: the total, totals and options that go out with the
\* saved session
SessionRow(session) ==
  [buyer |-> session.buyer, status |-> session.status,
   line_items |-> session.line_items,
   fulfillment_address |-> session.fulfillment_address,
   fulfillment_option_id |-> session.fulfillment_option_id,
   order_id |-> session.order,
   returned_total |-> TotalsAmount(session.totals, "total"),
   returned_totals |-> session.totals,
   returned_options |-> session.fulfillment_options]

(***************************************************************************)
(* Merchant: what runs beside the handlers.                                *)
(***************************************************************************)
\* IdempotencyService.cleanup, run by setInterval
Cleanup ==
  /\ \E k \in DOMAIN cache : Expired(cache[k])
  /\ cache' = [k \in {x \in DOMAIN cache : ~Expired(cache[x])} |-> cache[k]]
  /\ UNCHANGED <<pricing, activeSessions, mcpCall, now, issued, reqs, vault_tokens, payment_intents, idempotency_store,
                 checkout_sessions, orders>>

UnchangedPsp == UNCHANGED <<vault_tokens, payment_intents, idempotency_store>>

(***************************************************************************)
(* Merchant: the POST routes of CheckoutController.                        *)
(***************************************************************************)
Items(l) == [given |-> TRUE, list |-> l]
Physical == <<[id |-> "item_123", quantity |-> 1]>>
Digital == <<[id |-> "ebook_1", quantity |-> 2]>>
Unknown == <<[id |-> "item_999", quantity |-> 1]>>
\* one good item, one unknown product, one quantity above the stock
Mixed == <<[id |-> "ebook_1", quantity |-> 1], [id |-> "item_999", quantity |-> 1],
           [id |-> "item_123", quantity |-> 3]>>

\* items, fulfillment_address, fulfillment_option_id, buyer of the requests sent
CreateInputs ==
  { <<Items(Physical), None, None, None>>, <<Items(Physical), "CA", None, None>>,
    <<Items(Digital), None, None, None>>, <<Items(Mixed), None, None, "b1">> }

UpdateInputs ==
  { <<NoItems, None, None, "b1">>, <<NoItems, "CA", None, None>>,
    <<NoItems, None, "express_shipping", None>>,
    <<Items(Physical), None, None, None>>, <<Items(Digital), None, None, None>>,
    <<Items(<<>>), None, None, None>>,
    <<Items(Unknown), "CA", "express_shipping", "b1">> }

SessionBody(o, in) ==
  [ord |-> o, c |-> [EmptyContent EXCEPT !.items = in[1], !.fulfillment_address = in[2],
                                         !.fulfillment_option_id = in[3],
                                         !.buyer = in[4]]]

BodiesOf(kind, ords) ==
  CASE kind = "create" -> {SessionBody(o, in) : o \in ords, in \in CreateInputs}
    [] kind = "update" -> {SessionBody(o, in) : o \in ords, in \in UpdateInputs}
    [] kind = "complete" ->
         {[ord |-> o, c |-> [EmptyContent EXCEPT !.token = t]] :
            o \in ords, t \in 0..Len(vault_tokens)}
    [] kind = "cancel" -> {EmptyBody}

\* ids in the URL; 0 names no stored session
SessionIdsOf(kind) ==
  IF kind = "create" THEN {0} ELSE 0..Len(checkout_sessions)

FirstStep(kind) ==
  CASE kind = "create" -> "create"
    [] kind = "update" -> "up_read"
    [] kind = "complete" -> "co_read"
    [] kind = "cancel" -> "ca_read"

\* handleIdempotency up to next(): replay, conflict, or the handler starts
HandleIdempotency(q) ==
  LET found == Check(q.key, q.body)
  IN IF found = "cached"
       THEN [q EXCEPT !.pc = "done",
               !.resp = [status |-> cache[q.key].responseStatus, code |-> "ok",
                         body |-> cache[q.key].responseBody]]
     ELSE IF found = "conflict"
       THEN [q EXCEPT !.pc = "done",
               !.resp = [status |-> ConflictStatus, code |-> "request_not_idempotent",
                         body |-> ErrorBody("request_not_idempotent")]]
     ELSE [q EXCEPT !.pc = FirstStep(q.kind)]

MerchantStart(r, P) ==
  /\ CanStart(r, P)
  /\ \E kind \in {"create", "update", "complete", "cancel"}, key \in P.keys :
       \E body \in BodiesOf(kind, P.ords), sid \in SessionIdsOf(kind) :
         /\ reqs' = [reqs EXCEPT ![r] = HandleIdempotency(NewReq(kind, key, body, sid))]
         /\ cache' = CacheAfterCheck(key)
  /\ issued' = issued + 1
  /\ UNCHANGED <<pricing, activeSessions, mcpCall, now, checkout_sessions, orders>>
  /\ UnchangedPsp

\* createSession: build the session and save it unless it carries item errors
CreateSession(r) ==
  /\ reqs[r].pc = "create"
  /\ LET session == CreateSessionObject(Len(checkout_sessions) + 1, reqs[r].body.c)
     IN /\ checkout_sessions' =
             IF IsErrorSession(session) THEN checkout_sessions
             ELSE Append(checkout_sessions, SessionRow(session))
        /\ reqs' = [reqs EXCEPT ![r].pc = "respond", ![r].loc.next = session]
  /\ UNCHANGED <<pricing, activeSessions, mcpCall, now, issued, orders, cache>>
  /\ UnchangedPsp

\* The state check with 'canceled' left out
TerminalOnlyCompleted(status) == status = "completed"

\* session.status === 'completed' || session.status === 'canceled'
Terminal(status) == status \in {"completed", "canceled"}

\* VALID_TRANSITIONS, the table the Merchant declares for status changes
VALID_TRANSITIONS ==
  [not_ready_for_payment |-> {"ready_for_payment", "canceled"},
   ready_for_payment |-> {"in_progress", "canceled"},
   in_progress |-> {"completed", "canceled"},
   completed |-> {},
   canceled |-> {}]

\* isValidStatusTransition
IsValidStatusTransition(fromStatus, toStatus) ==
  toStatus \in VALID_TRANSITIONS[fromStatus]

\* updateSession: getSession, the state check, and the session rebuilt
UpdateRead(r) ==
  /\ reqs[r].pc = "up_read"
  /\ LET sid == reqs[r].sid
     IN reqs' = [reqs EXCEPT ![r] =
          IF sid \notin 1..Len(checkout_sessions)
            THEN Done(r, 404, "session_not_found", ErrorBody("session_not_found"))
          ELSE IF Terminal(checkout_sessions[sid].status)
            THEN [Done(r, 405, "session_not_modifiable", ErrorBody("session_not_modifiable"))
                    EXCEPT !.loc.seen = checkout_sessions[sid].status]
          ELSE LET next == UpdateSessionObject(GetSession(sid), reqs[r].body.c)
               IN [reqs[r] EXCEPT !.loc.seen = checkout_sessions[sid].status,
                                  !.loc.next = next,
                                  !.pc = IF IsErrorSession(next) THEN "respond"
                                         ELSE "up_save"]]
  /\ ResJsonOf(r)
  /\ UNCHANGED <<pricing, activeSessions, mcpCall, now, issued, checkout_sessions, orders>>
  /\ UnchangedPsp

\* updateSession: saveSession upserts the row and rebuilds the line items
UpdateSave(r) ==
  /\ reqs[r].pc = "up_save"
  /\ checkout_sessions' =
       [checkout_sessions EXCEPT ![reqs[r].sid] = SessionRow(reqs[r].loc.next)]
  /\ reqs' = [reqs EXCEPT ![r].pc = "respond"]
  /\ UNCHANGED <<pricing, activeSessions, mcpCall, now, issued, orders, cache>>
  /\ UnchangedPsp

\* The state check of complete with the readiness test left out
CompleteStatusErrorTerminalOnly(status) ==
  IF status \in {"completed", "canceled"} THEN "session_not_completable" ELSE "ok"

\* The error a complete call fails with for a stored status, or "ok"
CompleteStatusError(status) ==
  IF status # "ready_for_payment" THEN "session_not_completable" ELSE "ok"

\* completeSession: getSession, the state check, then the call to the PSP
CompleteRead(r) ==
  /\ reqs[r].pc = "co_read"
  /\ LET sid == reqs[r].sid
     IN reqs' = [reqs EXCEPT ![r] =
          IF sid \notin 1..Len(checkout_sessions)
            THEN Done(r, 404, "session_not_found", ErrorBody("session_not_found"))
          ELSE IF CompleteStatusError(checkout_sessions[sid].status) # "ok"
            THEN [Done(r, 405, CompleteStatusError(checkout_sessions[sid].status),
                       ErrorBody(CompleteStatusError(checkout_sessions[sid].status)))
                    EXCEPT !.loc.seen = checkout_sessions[sid].status]
          ELSE [reqs[r] EXCEPT !.pc = "pi_validate",
                  !.loc.seen = checkout_sessions[sid].status,
                  !.loc.buyer = checkout_sessions[sid].buyer,
                  !.loc.token = reqs[r].body.c.token,
                  !.loc.amount = TotalsAmount(GetSession(sid).totals, "total"),
                  !.loc.currency = "usd"]]
  /\ ResJsonOf(r)
  /\ UNCHANGED <<pricing, activeSessions, mcpCall, now, issued, checkout_sessions, orders>>
  /\ UnchangedPsp

\* The order inserted without the update of the session
CompleteCommitOrderOnly(r) ==
  /\ reqs[r].pc = "co_commit"
  /\ orders' = Append(orders, [checkout_session_id |-> reqs[r].sid,
                               payment_token |-> reqs[r].loc.token])
  /\ reqs' = [reqs EXCEPT ![r].pc = "reread"]
  /\ UNCHANGED <<pricing, activeSessions, mcpCall, now, issued, cache, checkout_sessions>>
  /\ UnchangedPsp

\* The transaction without order_id in the update of the session
CompleteCommitNoOrderRef(r) ==
  /\ reqs[r].pc = "co_commit"
  /\ orders' = Append(orders, [checkout_session_id |-> reqs[r].sid,
                               payment_token |-> reqs[r].loc.token])
  /\ checkout_sessions' = [checkout_sessions EXCEPT ![reqs[r].sid].status = "completed"]
  /\ reqs' = [reqs EXCEPT ![r].pc = "reread"]
  /\ UNCHANGED <<pricing, activeSessions, mcpCall, now, issued, cache>>
  /\ UnchangedPsp

\* completeSession: one transaction inserts the order and flips the status
CompleteCommit(r) ==
  /\ reqs[r].pc = "co_commit"
  /\ orders' = Append(orders, [checkout_session_id |-> reqs[r].sid,
                               payment_token |-> reqs[r].loc.token])
  /\ checkout_sessions' = [checkout_sessions EXCEPT
       ![reqs[r].sid].status = "completed",
       ![reqs[r].sid].order_id = Len(orders) + 1,
       ![reqs[r].sid].buyer = IF reqs[r].body.c.buyer # None THEN reqs[r].body.c.buyer
                              ELSE reqs[r].loc.buyer]
  /\ reqs' = [reqs EXCEPT ![r].pc = "reread"]
  /\ UNCHANGED <<pricing, activeSessions, mcpCall, now, issued, cache>>
  /\ UnchangedPsp

\* completeSession: the transaction fails; ROLLBACK, and the error is rethrown
CompleteRollback(r) ==
  /\ reqs[r].pc = "co_commit"
  /\ reqs' = [reqs EXCEPT ![r] =
       Done(r, 500, "internal_error", ErrorBody("internal_error"))]
  /\ ResJsonOf(r)
  /\ UNCHANGED <<pricing, activeSessions, mcpCall, now, issued, checkout_sessions, orders>>
  /\ UnchangedPsp

\* cancelSession: getSession and the state check
CancelRead(r) ==
  /\ reqs[r].pc = "ca_read"
  /\ LET sid == reqs[r].sid
     IN reqs' = [reqs EXCEPT ![r] =
          IF sid \notin 1..Len(checkout_sessions)
            THEN Done(r, 404, "session_not_found", ErrorBody("session_not_found"))
          ELSE IF checkout_sessions[sid].status = "completed"
            THEN [Done(r, 405, "session_not_cancelable", ErrorBody("session_not_cancelable"))
                    EXCEPT !.loc.seen = "completed"]
          ELSE IF checkout_sessions[sid].status = "canceled"
            THEN [reqs[r] EXCEPT !.pc = "respond", !.loc.seen = "canceled",
                                 !.loc.next = GetSession(sid)]
          ELSE [reqs[r] EXCEPT !.pc = "ca_write",
                               !.loc.seen = checkout_sessions[sid].status]]
  /\ ResJsonOf(r)
  /\ UNCHANGED <<pricing, activeSessions, mcpCall, now, issued, checkout_sessions, orders>>
  /\ UnchangedPsp

\* The cancel that also drops the selected fulfillment option
CancelWriteClearingOption(r) ==
  /\ reqs[r].pc = "ca_write"
  /\ checkout_sessions' = [checkout_sessions EXCEPT
       ![reqs[r].sid].status = "canceled",
       ![reqs[r].sid].fulfillment_option_id = None]
  /\ reqs' = [reqs EXCEPT ![r].pc = "reread"]
  /\ UNCHANGED <<pricing, activeSessions, mcpCall, now, issued, orders, cache>>
  /\ UnchangedPsp

\* cancelSession: UPDATE checkout_sessions SET status = 'canceled'
CancelWrite(r) ==
  /\ reqs[r].pc = "ca_write"
  /\ checkout_sessions' = [checkout_sessions EXCEPT ![reqs[r].sid].status = "canceled"]
  /\ reqs' = [reqs EXCEPT ![r].pc = "reread"]
  /\ UNCHANGED <<pricing, activeSessions, mcpCall, now, issued, orders, cache>>
  /\ UnchangedPsp

\* GET /checkout_sessions/:id is received; the middleware passes it on
GetStart(r, P) ==
  /\ CanStart(r, P)
  /\ \E sid \in SessionIdsOf("get") :
       reqs' = [reqs EXCEPT ![r] = [NewReq("get", None, EmptyBody, sid) EXCEPT
                                     !.pc = "get_read"]]
  /\ issued' = issued + 1
  /\ UNCHANGED <<pricing, activeSessions, mcpCall, now, checkout_sessions, orders, cache>>
  /\ UnchangedPsp

\* CheckoutController.getSession: the session as getSession rebuilds it, or 404
GetRead(r) ==
  /\ reqs[r].pc = "get_read"
  /\ reqs' = [reqs EXCEPT ![r] =
       IF reqs[r].sid \notin 1..Len(checkout_sessions)
         THEN Done(r, 404, "session_not_found", ErrorBody("session_not_found"))
         ELSE Done(r, 200, "ok", GetSession(reqs[r].sid))]
  /\ UNCHANGED <<pricing, activeSessions, mcpCall, now, issued, checkout_sessions, orders, cache>>
  /\ UnchangedPsp

\* res.status(..).json(session): the wrapped json stores a 2xx response under the key
Respond(r) ==
  /\ reqs[r].pc \in {"respond", "reread"}
  /\ LET status == IF reqs[r].kind = "create" THEN 201 ELSE 200
         body == IF reqs[r].pc = "reread" THEN GetSession(reqs[r].sid)
                 ELSE reqs[r].loc.next
     IN /\ reqs' = [reqs EXCEPT ![r] = Done(r, status, "ok", body)]
        /\ ResJsonOf(r)
  /\ UNCHANGED <<pricing, activeSessions, mcpCall, now, issued, checkout_sessions, orders>>
  /\ UnchangedPsp

(***************************************************************************)
(* The environment and the specifications.                                 *)
(***************************************************************************)
\* A clock unit (24 hours) passes; no handler stays in flight that long
Tick ==
  /\ now < MaxTime
  /\ InFlight = {}
  /\ now' = now + 1
  /\ UNCHANGED <<pricing, activeSessions, mcpCall, issued, reqs, cache, checkout_sessions, orders>>
  /\ UnchangedPsp

\* The MCP sessions of the MCP UI server, and no call in progress
McpSessionIds == {"mcp_a"}
NoCall == [op |-> None, mcpSessionId |-> None, slot |-> 0]

\* No pricing call is being followed
NoPricing ==
  [pc |-> "none", lineItems |-> <<>>, requiresShipping |-> FALSE, address |-> None,
   option |-> None, options |-> <<>>, totals |-> <<>>]

Init ==
  /\ now = 0
  /\ issued = 0
  /\ reqs = [r \in Slots |-> IdleReq]
  /\ vault_tokens = <<>>
  /\ payment_intents = <<>>
  /\ idempotency_store = <<>>
  /\ checkout_sessions = <<>>
  /\ orders = <<>>
  /\ cache = <<>>
  /\ pricing = NoPricing
  /\ activeSessions = [m \in McpSessionIds |-> <<>>]
  /\ mcpCall = NoCall

DelegateStep(r) ==
  \/ CreateVaultToken(r) \/ DelegateStore(r)

PaymentStep(r) ==
  \/ PaymentValidate(r) \/ PaymentInsert(r) \/ PaymentSimulate(r)
  \/ PaymentComplete(r) \/ PaymentInvalidate(r)

PspStep(r) == DelegateStep(r) \/ PaymentStep(r)

MerchantStep(r) ==
  \/ CreateSession(r) \/ UpdateRead(r) \/ UpdateSave(r)
  \/ CompleteRead(r) \/ CompleteCommit(r)
  \/ CancelRead(r) \/ CancelWrite(r)
  \/ GetRead(r)
  \/ Respond(r)

\* The PSP serving concurrent requests
Next ==
  \/ \E r \in Slots : DelegateStart(r, PspClients)
  \/ \E r \in Slots : ChargeStart(r, PspClients)
  \/ \E r \in Slots : PspStep(r)
  \/ Tick

Spec == Init /\ [][Next]_vars

\* The PSP serving one request at a time
NextPspSeq ==
  \/ \E r \in Slots : DelegateStart(r, PspSeqClients)
  \/ \E r \in Slots : ChargeStart(r, PspSeqClients)
  \/ \E r \in Slots : PspStep(r)
  \/ Tick

SpecPspSeq == Init /\ [][NextPspSeq]_vars

\* The PSP after one delegate_payment call (key k0) has returned
InitDelegated ==
  /\ now = 0
  /\ issued = 0
  /\ reqs = [r \in Slots |-> IdleReq]
  /\ vault_tokens =
       <<[id |-> GenerateVaultTokenId(1),
          allowance |-> [max_amount |-> 5000, currency |-> "usd", expires_at |-> Far,
                         reason |-> "one_time"],
          idempotency_key |-> "k0", status |-> "active"]>>
  /\ payment_intents = <<>>
  /\ idempotency_store =
       ("k0" :> [request_hash |-> Sha256([EmptyContent EXCEPT
                    !.risk_signals = RiskSignals,
                    !.allowance =
                      [max_amount |-> 5000, currency |-> "usd", expires_at |-> Far,
                       reason |-> "one_time"]]),
                 response_status |-> 201,
                 response_body |-> [id |-> 1, idempotency_key |-> "k0"]])
  /\ checkout_sessions = <<>>
  /\ orders = <<>>
  /\ cache = <<>>
  /\ pricing = NoPricing
  /\ activeSessions = [m \in McpSessionIds |-> <<>>]
  /\ mcpCall = NoCall

\* Both services, each request answered before the next arrives
NextSeq ==
  \/ \E r \in Slots : DelegateStart(r, SeqClients)
  \/ \E r \in Slots : MerchantStart(r, SeqClients)
  \/ \E r \in Slots : GetStart(r, SeqClients)
  \/ \E r \in Slots : PspStep(r)
  \/ \E r \in Slots : MerchantStep(r)
  \/ Tick
  \/ Cleanup

SpecSeq == InitDelegated /\ [][NextSeq]_vars

\* The Merchant serving one request at a time, the PSP behind it, with order
\* transactions that can fail, and handlers that keep running
RollbackClients == [MerchantClients EXCEPT !.lim = 1, !.max = MaxReqRollback]

NextRollback ==
  \/ \E r \in Slots : MerchantStart(r, RollbackClients)
  \/ \E r \in Slots : GetStart(r, RollbackClients)
  \/ \E r \in Slots : PaymentStep(r)
  \/ \E r \in Slots : MerchantStep(r)
  \/ \E r \in Slots : CompleteRollback(r)
  \/ Tick
  \/ Cleanup

SpecRollback ==
  /\ InitDelegated
  /\ [][NextRollback]_vars
  /\ WF_vars(\E r \in Slots : PaymentStep(r))
  /\ WF_vars(\E r \in Slots : MerchantStep(r))

\* Merchant servers calling create_and_process_payment_intent at the same
\* time on a token that exists or not, each handler running on once started
PaymentClients == [PspClients EXCEPT !.max = MaxReqPayment]

NextPayment ==
  \/ \E r \in Slots : ChargeStart(r, PaymentClients)
  \/ \E r \in Slots : PaymentStep(r)

SpecPayment ==
  /\ InitDelegated
  /\ [][NextPayment]_vars
  /\ \A r \in Slots : WF_vars(PaymentStep(r))

\* Clients that serialise the same body with its keys in either of two orders
KeyOrderClients == [SeqClients EXCEPT !.keys = {"k1"}, !.ords = {1, 2}]

\* Both services, sequential, with bodies in two key orders
NextKeyOrder ==
  \/ \E r \in Slots : DelegateStart(r, KeyOrderClients)
  \/ \E r \in Slots : MerchantStart(r, KeyOrderClients)
  \/ \E r \in Slots : GetStart(r, KeyOrderClients)
  \/ \E r \in Slots : PspStep(r)
  \/ \E r \in Slots : MerchantStep(r)
  \/ Tick
  \/ Cleanup

SpecKeyOrder == InitDelegated /\ [][NextKeyOrder]_vars

\* The Merchant serving concurrent requests, the PSP behind it
NextMerchant ==
  \/ \E r \in Slots : MerchantStart(r, MerchantClients)
  \/ \E r \in Slots : GetStart(r, MerchantClients)
  \/ \E r \in Slots : PaymentStep(r)
  \/ \E r \in Slots : MerchantStep(r)
  \/ Tick
  \/ Cleanup

SpecMerchant == InitDelegated /\ [][NextMerchant]_vars

(***************************************************************************)
(* The MCP UI server's MerchantSessionService: one Merchant session per    *)
(* MCP session, mirrored locally from the Merchant's responses.            *)
(***************************************************************************)
MaxReqMirror == 4    \* requests the MCP UI server sends in one run

MirrorClients == [MerchantClients EXCEPT !.lim = 1, !.max = MaxReqMirror]

\* buildHeaders: 'Idempotency-Key' is mcp_<Date.now()>_<Math.random()>, a
\* key no earlier request carried
BuildHeaders == [idempotency_key |-> <<"mcp_1", "mcp_2", "mcp_3", "mcp_4", "mcp_5", "mcp_6">>[issued + 1]]

\* routes/cart.ts: a click adds one unit of a product
AddInputs == {Physical, <<[id |-> "ebook_1", quantity |-> 1]>>}

\* routes/cart.ts: the contact form, the address form, and the items left
\* after a product was removed
UpdateRequests ==
  { <<NoItems, None, None, "b1">>, <<NoItems, "CA", None, None>>,
    <<Items(Physical), None, None, None>> }

\* currentSession.line_items.map(li => li.item)
ExistingItems(session) ==
  [i \in 1..Len(session.line_items) |->
     [id |-> session.line_items[i].id, quantity |-> session.line_items[i].quantity]]

RECURSIVE MergeItems(_, _)
\* addItemsToCart: quantities of a product already in the cart add up, a new
\* product is put after the others (the insertion order of the Map)
MergeItems(existingItems, items) ==
  IF Len(items) = 0
    THEN existingItems
    ELSE LET item == Head(items)
             merged ==
               IF \E i \in 1..Len(existingItems) : existingItems[i].id = item.id
                 THEN [i \in 1..Len(existingItems) |->
                         IF existingItems[i].id = item.id
                           THEN [existingItems[i] EXCEPT !.quantity = @ + item.quantity]
                           ELSE existingItems[i]]
                 ELSE Append(existingItems, item)
         IN MergeItems(merged, Tail(items))

\* fetch(...): the request reaches the Merchant, which takes it into slot r
Fetch(r, kind, body, sid) ==
  /\ CanStart(r, MirrorClients)
  /\ IF kind = "get"
       THEN /\ reqs' = [reqs EXCEPT ![r] = [NewReq("get", None, EmptyBody, sid) EXCEPT
                                             !.pc = "get_read"]]
            /\ UNCHANGED cache
       ELSE /\ reqs' = [reqs EXCEPT ![r] =
                 HandleIdempotency(NewReq(kind, BuildHeaders.idempotency_key, body, sid))]
            /\ cache' = CacheAfterCheck(BuildHeaders.idempotency_key)
  /\ issued' = issued + 1
  /\ UNCHANGED <<pricing, activeSessions, now, checkout_sessions, orders>>
  /\ UnchangedPsp

\* addItemsToCart up to its fetch: createSession when there is no mirror,
\* else updateSession with the merged items
AddItemsToCart(r, mcpSessionId) ==
  /\ mcpCall = NoCall
  /\ \E items \in AddInputs :
       IF Len(activeSessions[mcpSessionId]) = 0
         THEN Fetch(r, "create", SessionBody(1, <<Items(items), None, None, None>>), 0)
         ELSE LET currentSession == activeSessions[mcpSessionId][1]
                  mergedItems == MergeItems(ExistingItems(currentSession), items)
              IN Fetch(r, "update", SessionBody(1, <<Items(mergedItems), None, None, None>>),
                       currentSession.id)
  /\ mcpCall' = [op |-> "addItemsToCart", mcpSessionId |-> mcpSessionId, slot |-> r]

\* updateSession up to its fetch; without a mirror it throws
UpdateSession(r, mcpSessionId) ==
  /\ mcpCall = NoCall
  /\ Len(activeSessions[mcpSessionId]) > 0
  /\ \E updates \in UpdateRequests :
       Fetch(r, "update", SessionBody(1, updates), activeSessions[mcpSessionId][1].id)
  /\ mcpCall' = [op |-> "updateSession", mcpSessionId |-> mcpSessionId, slot |-> r]

\* refreshSession up to its fetch
RefreshSession(r, mcpSessionId) ==
  /\ mcpCall = NoCall
  /\ Len(activeSessions[mcpSessionId]) > 0
  /\ Fetch(r, "get", EmptyBody, activeSessions[mcpSessionId][1].id)
  /\ mcpCall' = [op |-> "refreshSession", mcpSessionId |-> mcpSessionId, slot |-> r]

\* MerchantSessionService.cancelSession up to its fetch
CancelSession(r, mcpSessionId) ==
  /\ mcpCall = NoCall
  /\ Len(activeSessions[mcpSessionId]) > 0
  /\ Fetch(r, "cancel", EmptyBody, activeSessions[mcpSessionId][1].id)
  /\ mcpCall' = [op |-> "cancelSession", mcpSessionId |-> mcpSessionId, slot |-> r]

\* clearSession: the mirror is dropped, the Merchant is not called
ClearSession(mcpSessionId) ==
  /\ mcpCall = NoCall
  /\ Len(activeSessions[mcpSessionId]) > 0
  /\ activeSessions' = [activeSessions EXCEPT ![mcpSessionId] = <<>>]
  /\ UNCHANGED <<pricing, mcpCall, now, issued, reqs, checkout_sessions, orders, cache>>
  /\ UnchangedPsp

\* The rest of a call: !response.ok throws and leaves the mirror; otherwise
\* the body replaces the mirror (cancelSession deletes it)
McpReturn ==
  /\ mcpCall # NoCall
  /\ reqs[mcpCall.slot].pc = "done"
  /\ LET response == reqs[mcpCall.slot].resp
         mcpSessionId == mcpCall.mcpSessionId
     IN activeSessions' =
          IF response.status \notin 200..299 THEN activeSessions
          ELSE IF mcpCall.op = "cancelSession"
            THEN [activeSessions EXCEPT ![mcpSessionId] = <<>>]
          ELSE [activeSessions EXCEPT ![mcpSessionId] = <<response.body>>]
  /\ mcpCall' = NoCall
  /\ UNCHANGED <<pricing, now, issued, reqs, checkout_sessions, orders, cache>>
  /\ UnchangedPsp

\* The handlers of the routes MerchantSessionService calls
MirrorStep(r) ==
  \/ CreateSession(r) \/ UpdateRead(r) \/ UpdateSave(r)
  \/ CancelRead(r) \/ CancelWrite(r)
  \/ GetRead(r)
  \/ Respond(r)

\* The MCP UI server as the only client of its Merchant sessions, one call
\* at a time
NextMirror ==
  \/ \E r \in Slots, m \in McpSessionIds : AddItemsToCart(r, m)
  \/ \E r \in Slots, m \in McpSessionIds : UpdateSession(r, m)
  \/ \E r \in Slots, m \in McpSessionIds : RefreshSession(r, m)
  \/ \E r \in Slots, m \in McpSessionIds : CancelSession(r, m)
  \/ \E m \in McpSessionIds : ClearSession(m)
  \/ McpReturn
  \/ \E r \in Slots : MirrorStep(r)

SpecMirror == Init /\ [][NextMirror]_vars

(***************************************************************************)
(* The pricing functions on their own: generateOptions, then               *)
(* calculateTotals with the cost of an option, for every argument.         *)
(***************************************************************************)
\* address.state of the addresses given
AddressStates == {"CA", "NY"}

OptionIds == {"standard_shipping", "express_shipping", "digital_delivery"}

\* Carts of one product in any quantity, and one cart of two products
PricingItems ==
  { <<[id |-> id, quantity |-> n]>> : id \in ProductIds, n \in 1..MaxQuantity }
    \cup { <<[id |-> "item_123", quantity |-> 1], [id |-> "ebook_1", quantity |-> 1]>> }

InitPricing ==
  /\ now = 0
  /\ issued = 0
  /\ reqs = [r \in Slots |-> IdleReq]
  /\ vault_tokens = <<>>
  /\ payment_intents = <<>>
  /\ idempotency_store = <<>>
  /\ checkout_sessions = <<>>
  /\ orders = <<>>
  /\ cache = <<>>
  /\ activeSessions = [m \in McpSessionIds |-> <<>>]
  /\ mcpCall = NoCall
  /\ \E items \in PricingItems, requiresShipping \in BOOLEAN,
        address \in {None} \cup AddressStates, option \in {None} \cup OptionIds :
       pricing = [NoPricing EXCEPT
                    !.pc = "generateOptions",
                    !.lineItems = [i \in 1..Len(items) |-> BuildLineItem(items[i])],
                    !.requiresShipping = requiresShipping,
                    !.address = address,
                    !.option = option]

\* fulfillmentManager.generateOptions(requiresShipping, address)
PricingOptions ==
  /\ pricing.pc = "generateOptions"
  /\ pricing' = [pricing EXCEPT
                   !.pc = "calculateTotals",
                   !.options = GenerateOptions(pricing.requiresShipping, pricing.address)]
  /\ UNCHANGED <<activeSessions, mcpCall, now, issued, reqs, checkout_sessions, orders, cache>>
  /\ UnchangedPsp

\* pricingCalculator.calculateTotals(lineItems, fulfillmentCost, address)
PricingTotals ==
  /\ pricing.pc = "calculateTotals"
  /\ pricing' = [pricing EXCEPT
                   !.pc = "done",
                   !.totals = CalculateTotals(pricing.lineItems,
                                GetFulfillmentCost(pricing.option, pricing.options),
                                pricing.address)]
  /\ UNCHANGED <<activeSessions, mcpCall, now, issued, reqs, checkout_sessions, orders, cache>>
  /\ UnchangedPsp

NextPricing == PricingOptions \/ PricingTotals

SpecPricing == InitPricing /\ [][NextPricing]_vars

(***************************************************************************)
(* Properties of the PSP: vault tokens and payment intents.                *)
(***************************************************************************)
\* The payment intents that reference token t and have one of the statuses
IntentsOf(t, statuses) ==
  {i \in 1..Len(payment_intents) :
     payment_intents[i].vault_token_id = t /\ payment_intents[i].status \in statuses}

\* The vault token rows created under idempotency key k
TokensOf(k) ==
  {t \in 1..Len(vault_tokens) : vault_tokens[t].idempotency_key = k}

\* Request r's call has just failed with the code, leaving intents and tokens alone
Rejected(r, code) ==
  /\ reqs'[r].pc = "done"
  /\ reqs'[r].resp.code = code
  /\ payment_intents' = payment_intents
  /\ vault_tokens' = vault_tokens

\* C1: with calls made one after another, once a call against token T has
\* returned a completed intent, every later call against T, whatever its
\* amount and currency, fails with vault_token_already_used and inserts no
\* intent; T never has more than one completed intent.
C1_TokenSingleUse ==
  /\ [](\A t \in 1..Len(vault_tokens) : Cardinality(IntentsOf(t, {"completed"})) <= 1)
  /\ [][\A r \in Slots :
          (/\ reqs[r].pc = "pi_validate"
           /\ reqs'[r] # reqs[r]
           /\ IntentsOf(reqs[r].loc.token, {"completed"}) # {})
          => Rejected(r, "vault_token_already_used")]_vars

\* A second call against a token that funded a completed intent was rejected
C1_Witness ==
  \E r \in Slots :
    /\ reqs[r].kind = "charge" /\ reqs[r].pc = "done"
    /\ reqs[r].resp.code = "vault_token_already_used"
    /\ Cardinality(IntentsOf(reqs[r].loc.token, {"completed"})) = 1

\* C2: with calls against one token in flight together, at most one payment
\* intent referencing the token reaches status completed.
C2_AtMostOneCompleted ==
  \A t \in 1..Len(vault_tokens) :
    \A i, j \in IntentsOf(t, {"completed"}) : i = j

\* The token exists, is not consumed and has not expired
Usable(t) ==
  /\ t \in 1..Len(vault_tokens)
  /\ vault_tokens[t].status = "active"
  /\ vault_tokens[t].allowance.expires_at >= now

\* Every stored intent is within its token's allowance
WithinAllowance ==
  \A i \in 1..Len(payment_intents) :
    LET allowance == vault_tokens[payment_intents[i].vault_token_id].allowance
    IN /\ payment_intents[i].amount <= allowance.max_amount
       /\ payment_intents[i].currency = allowance.currency

\* C3: every stored intent, pending or completed, has amount <= its token's
\* max_amount and the token's currency; against a token that exists, is not
\* consumed and has not expired, a call whose amount exceeds max_amount fails
\* with amount_exceeds_allowance, and a call whose amount is within max_amount
\* but whose currency differs fails with currency_mismatch, in both cases
\* inserting no intent and leaving the token unchanged.
C3_IntentWithinAllowance ==
  /\ []WithinAllowance
  /\ [][\A r \in Slots :
          (/\ reqs[r].pc = "pi_validate"
           /\ reqs'[r] # reqs[r]
           /\ Usable(reqs[r].loc.token))
          => LET q == reqs[r].loc
                 allowance == vault_tokens[q.token].allowance
             IN /\ q.amount > allowance.max_amount
                     => Rejected(r, "amount_exceeds_allowance")
                /\ (q.amount <= allowance.max_amount /\ q.currency # allowance.currency)
                     => Rejected(r, "currency_mismatch")]_vars

\* A call over the allowance of a usable token was rejected before any insert
C3_Witness ==
  \E r \in Slots :
    /\ reqs[r].kind = "charge" /\ reqs[r].pc = "done"
    /\ reqs[r].resp.code = "amount_exceeds_allowance"
    /\ Usable(reqs[r].loc.token)
    /\ reqs[r].loc.amount > vault_tokens[reqs[r].loc.token].allowance.max_amount
    /\ IntentsOf(reqs[r].loc.token, {"pending", "completed"}) = {}

\* C3 as stated: against any stored token, a call whose amount exceeds
\* max_amount fails with amount_exceeds_allowance and a call with a different
\* currency fails with currency_mismatch.
C3_AsStated ==
  /\ []WithinAllowance
  /\ [][\A r \in Slots :
          (/\ reqs[r].pc = "pi_validate"
           /\ reqs'[r] # reqs[r]
           /\ reqs[r].loc.token \in 1..Len(vault_tokens))
          => LET q == reqs[r].loc
                 allowance == vault_tokens[q.token].allowance
             IN /\ q.amount > allowance.max_amount
                     => Rejected(r, "amount_exceeds_allowance")
                /\ q.currency # allowance.currency
                     => Rejected(r, "currency_mismatch")]_vars

\* C8: with delegate_payment requests for one key in flight together, at
\* most one vault token row exists for the key, it exists once a request has
\* got past the insert, and every 201 response for the key carries its id.
C8_OneTokenPerKey ==
  \A k \in Keys :
    /\ Cardinality(TokensOf(k)) <= 1
    /\ \A r \in Slots :
         (reqs[r].kind = "delegate" /\ reqs[r].key = k) =>
           /\ (reqs[r].pc = "done" /\ reqs[r].resp.status = 201)
                => TokensOf(k) = {reqs[r].resp.body.id}
           /\ (reqs[r].pc = "dp_store" \/ reqs[r].resp.code = "duplicate_request")
                => Cardinality(TokensOf(k)) = 1

\* Two requests with one key and one body both passed the idempotency lookup:
\* one got 201, the other was stopped by the UNIQUE constraint
C8_Witness ==
  \E r1, r2 \in Slots :
    /\ reqs[r1].kind = "delegate" /\ reqs[r2].kind = "delegate"
    /\ reqs[r1].key = reqs[r2].key /\ reqs[r1].body = reqs[r2].body
    /\ reqs[r1].pc = "done" /\ reqs[r1].resp.status = 201
    /\ reqs[r2].pc = "done" /\ reqs[r2].resp.code = "duplicate_request"
    /\ TokensOf(reqs[r1].key) = {reqs[r1].resp.body.id}

(***************************************************************************)
(* Properties of the idempotency layers.                                   *)
(***************************************************************************)
MerchantKinds == {"create", "update", "complete", "cancel"}

\* Slot r receives a request in this step
Arrives(r) ==
  /\ issued' = issued + 1
  /\ reqs[r].pc \in {"idle", "done"}
  /\ \A q \in Slots : q < r => reqs[q].pc \notin {"idle", "done"}

\* No stored session, order, payment intent or vault token changes in this step
NoSideEffect ==
  UNCHANGED <<checkout_sessions, orders, payment_intents, vault_tokens>>

\* The record a finished, successful request left is its own response
StoredIsResponse ==
  \A r \in Slots :
    (reqs[r].pc = "done" /\ reqs[r].resp.status \in {200, 201}) =>
      /\ (reqs[r].kind \in MerchantKinds /\ reqs[r].key \in DOMAIN cache) =>
            /\ cache[reqs[r].key].requestHash = HashRequest(reqs[r].body)
            /\ cache[reqs[r].key].responseStatus = reqs[r].resp.status
            /\ cache[reqs[r].key].responseBody = reqs[r].resp.body
      /\ reqs[r].kind = "delegate" =>
            /\ reqs[r].key \in DOMAIN idempotency_store
            /\ idempotency_store[reqs[r].key].request_hash = GenerateRequestHash(reqs[r].body)
            /\ idempotency_store[reqs[r].key].response_status = reqs[r].resp.status
            /\ idempotency_store[reqs[r].key].response_body = reqs[r].resp.body

C5_Conflict ==
  [][\A r \in Slots :
       Arrives(r) =>
         LET q == reqs'[r]
         IN /\ (/\ q.kind \in MerchantKinds
                 /\ q.key \in DOMAIN cache
                 /\ now - cache[q.key].timestamp <= TtlMs
                 /\ cache[q.key].requestHash # HashRequest(q.body))
                => /\ q.pc = "done"
                   /\ q.resp.code = "request_not_idempotent"
                   /\ NoSideEffect /\ cache' = cache
            /\ (/\ q.kind = "delegate"
                 /\ q.key \in DOMAIN idempotency_store
                 /\ idempotency_store[q.key].request_hash # GenerateRequestHash(q.body))
                => /\ q.pc = "done"
                   /\ q.resp.code = IF ValidateDelegate(q.key, q.body) = "ok"
                                      THEN "idempotency_conflict"
                                      ELSE ValidateDelegate(q.key, q.body)
                   /\ NoSideEffect /\ idempotency_store' = idempotency_store]_vars

\* A Merchant request reusing a stored key with another body got the conflict error
C5_Witness ==
  \E r \in Slots :
    /\ reqs[r].kind \in MerchantKinds /\ reqs[r].pc = "done"
    /\ reqs[r].resp.code = "request_not_idempotent"
    /\ reqs[r].key \in DOMAIN cache
    /\ cache[reqs[r].key].requestHash # HashRequest(reqs[r].body)

\* C5 as stated: a POST that reuses any stored key with a body whose hash
\* differs from the stored one is rejected with the conflict error, the
\* handler does not run and the stored record is kept.
C5_AsStated ==
  [][\A r \in Slots :
       Arrives(r) =>
         LET q == reqs'[r]
         IN /\ (/\ q.kind \in MerchantKinds
                 /\ q.key \in DOMAIN cache
                 /\ cache[q.key].requestHash # HashRequest(q.body))
                => /\ q.pc = "done"
                   /\ q.resp.code = "request_not_idempotent"
                   /\ NoSideEffect /\ cache' = cache
            /\ (/\ q.kind = "delegate"
                 /\ q.key \in DOMAIN idempotency_store
                 /\ idempotency_store[q.key].request_hash # GenerateRequestHash(q.body))
                => /\ q.pc = "done"
                   /\ q.resp.code = "idempotency_conflict"
                   /\ NoSideEffect /\ idempotency_store' = idempotency_store]_vars

\* C6: the response to an idempotency conflict has status 409 on both services.
C6_Conflict409 ==
  \A r \in Slots :
    (/\ reqs[r].pc = "done"
     /\ reqs[r].resp.code \in {"request_not_idempotent", "idempotency_conflict"})
    => reqs[r].resp.status = 409

\* C7: while no record can have expired, two create requests with one key
\* and one body that were in flight together and both succeeded return one
\* and the same checkout session.
C7_OneSideEffect ==
  \A r1, r2 \in Slots :
    (/\ now <= TtlMs
     /\ reqs[r1].kind = "create" /\ reqs[r2].kind = "create"
     /\ reqs[r1].key = reqs[r2].key /\ reqs[r1].body = reqs[r2].body
     /\ reqs[r1].pc = "done" /\ reqs[r2].pc = "done"
     /\ reqs[r1].resp.status = 201 /\ reqs[r2].resp.status = 201)
    => reqs[r1].resp.body.id = reqs[r2].resp.body.id

(***************************************************************************)
(* Properties of the checkout session state machine.                       *)
(***************************************************************************)
\* C9: every change of a stored session's status is one of the allowed
\* transitions; completed and canceled have none.
C9_AllowedTransitions ==
  [][\A sid \in 1..Len(checkout_sessions) :
       checkout_sessions'[sid].status # checkout_sessions[sid].status
       => IsValidStatusTransition(checkout_sessions[sid].status,
                                  checkout_sessions'[sid].status)]_vars

\* The steps of update and complete that follow their state check
PastStateCheck ==
  {"up_save", "pi_validate", "pi_insert", "pi_simulate", "pi_complete",
   "pi_invalidate", "co_commit"}

\* C10: with calls made one after another, an updateSession call on a
\* session stored as completed or canceled fails with session_not_modifiable
\* and a completeSession call with session_not_completable; neither goes past
\* its state check nor changes the stored session, its line items or its order.
C10_TerminalRejects ==
  /\ [](\A r \in Slots :
          (reqs[r].kind \in {"update", "complete"} /\ reqs[r].pc \in PastStateCheck)
          => checkout_sessions[reqs[r].sid].status \notin {"completed", "canceled"})
  /\ [][\A r \in Slots :
          (/\ reqs[r].pc \in {"up_read", "co_read"}
           /\ reqs'[r] # reqs[r]
           /\ reqs[r].sid \in 1..Len(checkout_sessions)
           /\ checkout_sessions[reqs[r].sid].status \in {"completed", "canceled"})
          => /\ reqs'[r].pc = "done"
             /\ reqs'[r].resp.status = 405
             /\ reqs[r].pc = "up_read" => reqs'[r].resp.code = "session_not_modifiable"
             /\ reqs[r].pc = "co_read" => reqs'[r].resp.code = "session_not_completable"
             /\ UNCHANGED <<checkout_sessions, orders>>]_vars

\* An update of a completed session was rejected and the session kept its order
C10_Witness ==
  \E r \in Slots :
    /\ reqs[r].kind = "update" /\ reqs[r].pc = "done"
    /\ reqs[r].resp.code = "session_not_modifiable"
    /\ checkout_sessions[reqs[r].sid].status = "completed"
    /\ checkout_sessions[reqs[r].sid].order_id = 1

(***************************************************************************)
(* Readiness and fulfillment of a session.                                 *)
(***************************************************************************)
\* Whether a product of the line items is one that requires shipping
ItemsRequireShipping(lineItems) ==
  \E i \in 1..Len(lineItems) : Catalog[lineItems[i].id].requires_shipping

\* The status the readiness rule gives a stored row
ReadinessOf(row) ==
  IF /\ Len(row.line_items) >= 1
     /\ \/ ~ItemsRequireShipping(row.line_items)
        \/ row.fulfillment_address # None /\ row.fulfillment_option_id # None
    THEN "ready_for_payment" ELSE "not_ready_for_payment"

\* A create or update request r saves its session in this step
Persists(r) ==
  /\ reqs[r].pc \in {"create", "up_save"}
  /\ reqs'[r].pc = "respond"
  /\ checkout_sessions' # checkout_sessions \/ reqs[r].pc = "up_save"

\* The session id a create or update request r saves under
SavedId(r) == IF reqs[r].kind = "create" THEN Len(checkout_sessions') ELSE reqs[r].sid

\* C11: after every create or update that persists a session, the stored
\* status and the returned status are ready_for_payment exactly when the
\* session has at least one line item and either no item requires shipping
\* or both an address and a selected option are present, and
\* not_ready_for_payment otherwise.
C11_DerivedStatus ==
  [][\A r \in Slots :
       Persists(r) =>
         /\ checkout_sessions'[SavedId(r)].status =
              ReadinessOf(checkout_sessions'[SavedId(r)])
         /\ reqs'[r].loc.next.status = ReadinessOf(checkout_sessions'[SavedId(r)])]_vars

\* C12: a stored session that is not completed or canceled, has an item that
\* requires shipping and has no address, has status not_ready_for_payment,
\* and every create, update or get response for it carries no fulfillment
\* options.
C12_NoAddressNotReady ==
  /\ \A sid \in 1..Len(checkout_sessions) :
       LET row == checkout_sessions[sid]
       IN (/\ row.status \notin {"completed", "canceled"}
           /\ ItemsRequireShipping(row.line_items)
           /\ row.fulfillment_address = None)
          => /\ row.status = "not_ready_for_payment"
             /\ GetSession(sid).fulfillment_options = <<>>
  /\ \A r \in Slots :
       (/\ reqs[r].kind \in {"create", "update", "get"}
        /\ reqs[r].pc = "done"
        /\ reqs[r].resp.status \in {200, 201}
        /\ reqs[r].resp.body.id \in 1..Len(checkout_sessions)
        /\ reqs[r].resp.body.status \notin {"completed", "canceled"}
        /\ ItemsRequireShipping(reqs[r].resp.body.line_items)
        /\ reqs[r].resp.body.fulfillment_address = None)
       => reqs[r].resp.body.fulfillment_options = <<>>

\* An update request r that supplies an address and nothing else is built
\* from a stored session with a shipping item and no address
AddressOnlyUpdate(r) ==
  /\ reqs[r].kind = "update"
  /\ reqs[r].pc = "up_read"
  /\ reqs[r].sid \in 1..Len(checkout_sessions)
  /\ checkout_sessions[reqs[r].sid].status = "not_ready_for_payment"
  /\ ItemsRequireShipping(checkout_sessions[reqs[r].sid].line_items)
  /\ checkout_sessions[reqs[r].sid].fulfillment_address = None
  /\ ~reqs[r].body.c.items.given
  /\ reqs[r].body.c.fulfillment_address = "CA"
  /\ reqs[r].body.c.fulfillment_option_id = None
  /\ reqs'[r].pc = "up_save"

\* C13: on a session created with shipping items and no address, an update
\* that supplies only an address returns the standard (500) and express
\* (1500) options, selects standard, has a total of the items subtotal plus
\* 500 plus the tax on both, and status ready_for_payment.
C13_AddressOnlyUpdate ==
  [][\A r \in Slots :
       AddressOnlyUpdate(r) =>
         LET session == reqs'[r].loc.next
             subtotal == SumField(session.line_items, "subtotal")
         IN /\ Len(session.fulfillment_options) = 2
            /\ session.fulfillment_options[1].id = "standard_shipping"
            /\ session.fulfillment_options[1].subtotal = 500
            /\ session.fulfillment_options[2].id = "express_shipping"
            /\ session.fulfillment_options[2].subtotal = 1500
            /\ session.fulfillment_option_id = "standard_shipping"
            /\ TotalsAmount(session.totals, "total") =
                 subtotal + 500 + RoundTenth(subtotal + 500)
            /\ session.status = "ready_for_payment"]_vars

(***************************************************************************)
(* Completing and canceling a session.                                     *)
(***************************************************************************)
\* Where a complete call is once its state check has let it through
CompleteAccepted ==
  {"pi_validate", "pi_insert", "pi_simulate", "pi_complete", "pi_invalidate",
   "co_commit", "reread"}

\* C14: a complete call is accepted only when the stored status is
\* ready_for_payment; on a session stored as not_ready_for_payment, completed
\* or canceled it fails with session_not_completable, sends no request to the
\* PSP, creates no order and leaves the stored session unchanged.
C14_CompleteOnlyWhenReady ==
  /\ [](\A r \in Slots :
          (reqs[r].kind = "complete" /\ reqs[r].pc \in CompleteAccepted)
          => reqs[r].loc.seen = "ready_for_payment")
  /\ [][\A r \in Slots :
          (/\ reqs[r].pc = "co_read"
           /\ reqs'[r].pc # "co_read"
           /\ reqs[r].sid \in 1..Len(checkout_sessions))
          => IF checkout_sessions[reqs[r].sid].status = "ready_for_payment"
               THEN reqs'[r].pc = "pi_validate"
               ELSE /\ reqs'[r].pc = "done"
                    /\ reqs'[r].resp.status = 405
                    /\ reqs'[r].resp.code = "session_not_completable"
                    /\ UNCHANGED <<checkout_sessions, orders, payment_intents,
                                   vault_tokens>>]_vars
  /\ [][(payment_intents' # payment_intents \/ orders' # orders)
          => \E r \in Slots :
               /\ reqs[r].kind = "complete"
               /\ reqs[r].loc.seen = "ready_for_payment"
               /\ reqs'[r].pc # reqs[r].pc]_vars

\* A complete call on a session that lacks its address was refused and
\* nothing was charged or ordered
C14_Witness ==
  \E r \in Slots :
    /\ reqs[r].kind = "complete" /\ reqs[r].pc = "done"
    /\ reqs[r].resp.code = "session_not_completable"
    /\ reqs[r].loc.seen = "not_ready_for_payment"
    /\ checkout_sessions[reqs[r].sid].status = "not_ready_for_payment"
    /\ payment_intents = <<>> /\ orders = <<>>

\* C15: when the PSP call of a complete fails, or returns an intent that is
\* not completed, the call returns an error, creates no order and leaves the
\* stored session unchanged; on success the order is inserted and the session
\* flipped to completed with its order reference in one step, or not at all.
C15_PaymentThenOrder ==
  /\ [](\A r \in Slots :
          (reqs[r].kind = "complete" /\ reqs[r].pc = "co_commit")
          => /\ reqs[r].loc.psp = "ok"
             /\ payment_intents[reqs[r].loc.intent].status = "completed")
  /\ [][\A r \in Slots :
          (/\ reqs[r].kind = "complete"
           /\ reqs[r].pc \in {"pi_validate", "pi_insert", "pi_simulate",
                              "pi_complete", "pi_invalidate"}
           /\ reqs'[r].pc = "done")
          => /\ reqs'[r].resp.status \notin {200, 201}
             /\ reqs'[r].loc.psp \notin {"none", "ok"}
             /\ UNCHANGED <<checkout_sessions, orders>>]_vars
  /\ [][orders' # orders
          => /\ Len(orders') = Len(orders) + 1
             /\ SubSeq(orders', 1, Len(orders)) = orders
             /\ LET sid == orders'[Len(orders')].checkout_session_id
                IN /\ checkout_sessions'[sid].status = "completed"
                   /\ checkout_sessions'[sid].order_id = Len(orders')
                   /\ \A s \in 1..Len(checkout_sessions) :
                        s # sid => checkout_sessions'[s] = checkout_sessions[s]]_vars
  /\ [][\A s \in 1..Len(checkout_sessions) :
          (checkout_sessions'[s].status = "completed"
           /\ checkout_sessions[s].status # "completed")
          => /\ Len(orders') = Len(orders) + 1
             /\ orders'[Len(orders')].checkout_session_id = s]_vars

\* The PSP refused the payment of a complete call: the call failed and the
\* session is still ready for payment with no order
C15_Witness ==
  \E r \in Slots :
    /\ reqs[r].kind = "complete" /\ reqs[r].pc = "done"
    /\ reqs[r].loc.psp \notin {"none", "ok"}
    /\ reqs[r].resp.status = 500
    /\ checkout_sessions[reqs[r].sid].status = "ready_for_payment"
    /\ checkout_sessions[reqs[r].sid].order_id = 0
    /\ orders = <<>>

\* The orders that reference session sid
OrdersOf(sid) == {o \in 1..Len(orders) : orders[o].checkout_session_id = sid}

\* C16: with calls made one after another, a session is completed exactly
\* when one order references it and the session's order reference points to
\* that order; no session has two orders; orders are never modified or deleted.
C16_OneOrderPerCompleted ==
  /\ [](\A sid \in 1..Len(checkout_sessions) :
          /\ Cardinality(OrdersOf(sid)) <= 1
          /\ checkout_sessions[sid].status = "completed"
               <=> (/\ Cardinality(OrdersOf(sid)) = 1
                    /\ checkout_sessions[sid].order_id \in OrdersOf(sid)))
  /\ [](\A o \in 1..Len(orders) :
          orders[o].checkout_session_id \in 1..Len(checkout_sessions))
  /\ [][/\ Len(orders') >= Len(orders)
        /\ SubSeq(orders', 1, Len(orders)) = orders]_vars

\* A session is completed with its one order, and a further complete call on
\* it was refused
C16_Witness ==
  \E r \in Slots :
    /\ reqs[r].kind = "complete" /\ reqs[r].pc = "done"
    /\ reqs[r].loc.seen = "completed"
    /\ reqs[r].resp.code = "session_not_completable"
    /\ checkout_sessions[reqs[r].sid].status = "completed"
    /\ OrdersOf(reqs[r].sid) = {checkout_sessions[reqs[r].sid].order_id}
    /\ Len(orders) = 1

\* C17: a cancel call on a session stored as not_ready_for_payment or
\* ready_for_payment sets the stored status to canceled and changes nothing
\* else; on a canceled session it succeeds, returns the session and changes
\* nothing; on a completed session it fails with session_not_cancelable and
\* leaves the session and its order unchanged.
C17_Cancel ==
  /\ [][\A r \in Slots :
          (/\ reqs[r].pc = "ca_read"
           /\ reqs'[r].pc # "ca_read"
           /\ reqs[r].sid \in 1..Len(checkout_sessions))
          => /\ UNCHANGED <<checkout_sessions, orders>>
             /\ reqs'[r].loc.seen = checkout_sessions[reqs[r].sid].status
             /\ CASE checkout_sessions[reqs[r].sid].status = "completed" ->
                       /\ reqs'[r].pc = "done"
                       /\ reqs'[r].resp.status = 405
                       /\ reqs'[r].resp.code = "session_not_cancelable"
                  [] checkout_sessions[reqs[r].sid].status = "canceled" ->
                       /\ reqs'[r].pc = "respond"
                       /\ reqs'[r].loc.next.id = reqs[r].sid
                       /\ reqs'[r].loc.next.status = "canceled"
                  [] OTHER -> reqs'[r].pc = "ca_write"]_vars
  /\ [][\A r \in Slots :
          (reqs[r].pc = "ca_write" /\ reqs'[r].pc # "ca_write")
          => /\ orders' = orders
             /\ Len(checkout_sessions') = Len(checkout_sessions)
             /\ \A s \in 1..Len(checkout_sessions) :
                  checkout_sessions'[s] =
                    IF s = reqs[r].sid
                      THEN [buyer |-> checkout_sessions[s].buyer,
                            status |-> "canceled",
                            line_items |-> checkout_sessions[s].line_items,
                            fulfillment_address |-> checkout_sessions[s].fulfillment_address,
                            fulfillment_option_id |->
                              checkout_sessions[s].fulfillment_option_id,
                            order_id |-> checkout_sessions[s].order_id,
                            returned_total |-> checkout_sessions[s].returned_total,
                            returned_totals |-> checkout_sessions[s].returned_totals,
                            returned_options |-> checkout_sessions[s].returned_options]
                      ELSE checkout_sessions[s]]_vars
  /\ [][\A r \in Slots :
          (/\ reqs[r].kind = "cancel"
           /\ reqs[r].pc \in {"respond", "reread"}
           /\ reqs'[r].pc = "done")
          => /\ UNCHANGED <<checkout_sessions, orders>>
             /\ reqs'[r].resp.status = 200
             /\ reqs'[r].resp.body.id = reqs[r].sid
             /\ reqs'[r].resp.body.status = "canceled"
             /\ checkout_sessions[reqs[r].sid].status = "canceled"]_vars

\* A second cancel call on a canceled session succeeded and returned it
C17_Witness ==
  \E r \in Slots :
    /\ reqs[r].kind = "cancel" /\ reqs[r].pc = "done"
    /\ reqs[r].loc.seen = "canceled"
    /\ reqs[r].resp.status = 200
    /\ reqs[r].resp.body.status = "canceled"
    /\ checkout_sessions[reqs[r].sid].status = "canceled"
    /\ checkout_sessions[reqs[r].sid].fulfillment_option_id # "none"

(***************************************************************************)
(* Requests with items that cannot be sold.                                *)
(***************************************************************************)
\* An item of a request names no product, or more units than are in stock
Failing(item) == ~HasProduct(item.id) \/ ~CheckAvailability(item.id, item.quantity)

FailingItems(items) == SelectSeq(items, Failing)

\* The one error message an item that fails is reported with
ErrorMessagesOf(items) ==
  [i \in 1..Len(FailingItems(items)) |->
     [type |-> "error",
      code |-> IF ~HasProduct(FailingItems(items)[i].id) THEN "invalid"
               ELSE "out_of_stock",
      param |-> FailingItems(items)[i].id]]

C19_ErrorUpdate ==
  /\ [][\A r \in Slots :
          (/\ reqs[r].pc = "up_read"
           /\ reqs'[r].pc # "up_read"
           /\ reqs[r].sid \in 1..Len(checkout_sessions)
           /\ checkout_sessions[reqs[r].sid].status \notin {"completed", "canceled"}
           /\ FailingItems(reqs[r].body.c.items.list) # <<>>)
          => /\ UNCHANGED <<checkout_sessions, orders>>
             /\ reqs'[r].pc = "respond"
             /\ reqs'[r].loc.next.id = reqs[r].sid
             /\ reqs'[r].loc.next.line_items = <<>>
             /\ reqs'[r].loc.next.status = "not_ready_for_payment"
             /\ reqs'[r].loc.next.messages =
                  ErrorMessagesOf(reqs[r].body.c.items.list)]_vars
  /\ [][\A r \in Slots :
          (reqs[r].kind = "update" /\ reqs[r].pc = "respond" /\ reqs'[r].pc = "done")
          => /\ reqs'[r].resp.status = 200
             /\ reqs'[r].resp.body = reqs[r].loc.next
             /\ UNCHANGED <<checkout_sessions, orders>>]_vars
  /\ [](\A r \in Slots :
          (reqs[r].kind = "update" /\ reqs[r].pc = "up_save")
          => FailingItems(reqs[r].body.c.items.list) = <<>>)

\* An update with an unknown item, a buyer, an address and an option was
\* answered with the error session, and the stored session has none of them
C19_Witness ==
  \E r \in Slots :
    /\ reqs[r].kind = "update" /\ reqs[r].pc = "done"
    /\ reqs[r].resp.status = 200
    /\ reqs[r].sid \in 1..Len(checkout_sessions)
    /\ reqs[r].resp.body.id = reqs[r].sid
    /\ reqs[r].resp.body.line_items = <<>>
    /\ reqs[r].resp.body.messages[1].code = "invalid"
    /\ reqs[r].resp.body.buyer = "b1"
    /\ checkout_sessions[reqs[r].sid].buyer = "none"
    /\ checkout_sessions[reqs[r].sid].fulfillment_address = "none"
    /\ checkout_sessions[reqs[r].sid].fulfillment_option_id = "none"
    /\ checkout_sessions[reqs[r].sid].status = "not_ready_for_payment"
    /\ Len(checkout_sessions[reqs[r].sid].line_items) = 1

\* C20: the amount a complete call sends to the PSP is the total of the
\* totals that the last create or update of the session returned to the
\* client, in the session's currency.
C20_AmountIsReturnedTotal ==
  [][\A r \in Slots :
       (/\ reqs[r].kind = "complete"
        /\ reqs[r].pc = "co_read"
        /\ reqs'[r].pc = "pi_validate")
       => /\ reqs'[r].loc.amount = checkout_sessions[reqs[r].sid].returned_total
          /\ reqs'[r].loc.currency = "usd"]_vars

(***************************************************************************)
(* Totals, line items and fulfillment options in responses.                *)
(***************************************************************************)
\* C21: totals and fulfillment options are the same function of a session's
\* stored line items, selected option and address in every response: a get
\* of a session whose row is as the last create or update saved it returns
\* the totals, fulfillment_options and fulfillment_option_id that this create
\* or update returned.
C21_GetReturnsWhatWasReturned ==
  [][\A r \in Slots :
       (/\ reqs[r].pc = "get_read"
        /\ reqs'[r].pc = "done"
        /\ reqs[r].sid \in 1..Len(checkout_sessions)
        /\ checkout_sessions[reqs[r].sid].status \notin {"completed", "canceled"})
       => LET row == checkout_sessions[reqs[r].sid]
              body == reqs'[r].resp.body
          IN /\ reqs'[r].resp.status = 200
             /\ body.totals = row.returned_totals
             /\ body.fulfillment_options = row.returned_options
             /\ body.fulfillment_option_id = row.fulfillment_option_id]_vars

\* The sessions that went out in a response, first-hand or kept for replay
SessionResponses ==
  {reqs[r].resp.body : r \in {q \in Slots :
       /\ reqs[q].pc = "done"
       /\ reqs[q].kind \in {"create", "update", "complete", "cancel", "get"}
       /\ reqs[q].resp.status \in {200, 201}}}
  \cup {cache[k].responseBody : k \in DOMAIN cache}

HasEntry(totals, type) == \E i \in 1..Len(totals) : totals[i].type = type

\* The cost of the option a response names as selected, among its options
SelectedCost(body) ==
  LET chosen == {i \in 1..Len(body.fulfillment_options) :
                   body.fulfillment_options[i].id = body.fulfillment_option_id}
  IN IF chosen = {} THEN 0
     ELSE body.fulfillment_options[CHOOSE i \in chosen : TRUE].subtotal

\* C22: in every session response with a non-empty totals array the total
\* entry equals subtotal - discount + fulfillment + tax + fee, an absent
\* addend counting as 0, and the fulfillment and tax entries are present
\* exactly when their value is greater than 0.
C22_TotalsAddUp ==
  \A body \in SessionResponses :
    body.totals # <<>> =>
      LET subtotal == TotalsAmount(body.totals, "subtotal")
          fulfillment == SelectedCost(body)
          tax == IF body.fulfillment_address = "CA"
                   THEN ((subtotal + fulfillment) * 10 + 50) \div 100 ELSE 0
      IN /\ TotalsAmount(body.totals, "total") =
              subtotal - TotalsAmount(body.totals, "discount")
              + TotalsAmount(body.totals, "fulfillment")
              + TotalsAmount(body.totals, "tax") + TotalsAmount(body.totals, "fee")
         /\ HasEntry(body.totals, "fulfillment") <=> fulfillment > 0
         /\ HasEntry(body.totals, "tax") <=> tax > 0
         /\ HasEntry(body.totals, "fulfillment")
              => TotalsAmount(body.totals, "fulfillment") = fulfillment
         /\ HasEntry(body.totals, "tax") => TotalsAmount(body.totals, "tax") = tax

\* One response carries a fulfillment and a tax entry, another neither
C22_Witness ==
  \E a, b \in SessionResponses :
    /\ a.totals = <<[type |-> "items_base_amount", amount |-> 2999],
                    [type |-> "subtotal", amount |-> 2999],
                    [type |-> "fulfillment", amount |-> 500],
                    [type |-> "tax", amount |-> 350],
                    [type |-> "total", amount |-> 3849]>>
    /\ b.totals = <<[type |-> "items_base_amount", amount |-> 1998],
                    [type |-> "subtotal", amount |-> 1998],
                    [type |-> "total", amount |-> 1998]>>

\* The line items of every stored session and of every session in a response
AllLineItems ==
  UNION {{checkout_sessions[s].line_items[i] :
            i \in 1..Len(checkout_sessions[s].line_items)} :
          s \in 1..Len(checkout_sessions)}
  \cup UNION {{body.line_items[i] : i \in 1..Len(body.line_items)} :
               body \in SessionResponses}

\* C23: every line item of every stored or returned session has base_amount =
\* unit price x quantity, discount = 0, subtotal = base_amount - discount,
\* tax = 0 and total = subtotal + tax.
C23_LineItemAmounts ==
  \A li \in AllLineItems :
    /\ li.base_amount = Catalog[li.id].base_price * li.quantity
    /\ li.discount = 0
    /\ li.subtotal = li.base_amount - li.discount
    /\ li.tax = 0
    /\ li.total = li.subtotal + li.tax

\* A session of two units of one product is stored and was returned
C23_Witness ==
  \E s \in 1..Len(checkout_sessions), body \in SessionResponses :
    /\ body.id = s
    /\ body.line_items = checkout_sessions[s].line_items
    /\ Len(body.line_items) = 1
    /\ body.line_items[1].quantity = 2
    /\ body.line_items[1].base_amount = 1998
    /\ body.line_items[1].total = 1998

(***************************************************************************)
(* Idempotency records of failed requests and of re-ordered bodies.        *)
(***************************************************************************)
\* The POST requests that carry an Idempotency-Key
KeyedPosts == {"create", "update", "complete", "cancel", "delegate"}

\* Request r is answered in this step
Answered(r) ==
  /\ reqs'[r].pc = "done"
  /\ Arrives(r) \/ reqs[r].pc \notin {"idle", "done"}

\* In the next state the key of request r is free on the service r was sent
\* to: a request that carries it, with any body, is executed as a first one
KeyFreeAfter(r) ==
  IF reqs'[r].kind = "delegate"
    THEN reqs'[r].key \notin DOMAIN idempotency_store'
    ELSE \/ reqs'[r].key \notin DOMAIN cache'
         \/ now' - cache'[reqs'[r].key].timestamp > TtlMs

\* Before the step the key of request r has no record that is still kept
KeyFreeBefore(r) ==
  IF reqs'[r].kind = "delegate"
    THEN reqs'[r].key \notin DOMAIN idempotency_store
    ELSE \/ reqs'[r].key \notin DOMAIN cache
         \/ now - cache[reqs'[r].key].timestamp > TtlMs

\* C24 (as amended): a POST whose response status is outside the 2xx range
\* stores no idempotency record and changes none; when its key had no record
\* before, a request with the same key, with the same or a different body,
\* is then executed as a first-time request.
C24_NoRecordOnFailure ==
  [][\A r \in Slots :
       (/\ Answered(r)
        /\ reqs'[r].kind \in KeyedPosts
        /\ ~(reqs'[r].resp.status >= 200 /\ reqs'[r].resp.status < 300))
       => /\ UNCHANGED <<cache, idempotency_store>>
          /\ KeyFreeBefore(r) => KeyFreeAfter(r)
          /\ (reqs'[r].kind # "delegate"
              /\ reqs'[r].resp.code # "request_not_idempotent") => KeyFreeAfter(r)]_vars

\* C24 as stated: after any POST answered outside the 2xx range, a request
\* with the same key is executed as a first-time request.
C24_AsStated ==
  [][\A r \in Slots :
       (/\ Answered(r)
        /\ reqs'[r].kind \in KeyedPosts
        /\ ~(reqs'[r].resp.status >= 200 /\ reqs'[r].resp.status < 300))
       => /\ UNCHANGED <<cache, idempotency_store>>
          /\ KeyFreeAfter(r)]_vars

\* A complete call failed at the PSP with 500: its key has no record, while
\* the key of the create before it has one
C24_Witness ==
  \E r \in Slots :
    /\ reqs[r].kind = "complete" /\ reqs[r].pc = "done"
    /\ reqs[r].resp.status = 500
    /\ reqs[r].key \notin DOMAIN cache
    /\ cache # <<>>

\* The record kept for the key of the request that arrives in slot r was
\* stored for a body equal, as a JSON value, to the body of that request
SameValueStored(r) ==
  LET k == reqs'[r].key
      c == reqs'[r].body.c
  IN IF reqs'[r].kind = "delegate"
       THEN /\ k \in DOMAIN idempotency_store
            /\ \E o \in {1, 2} :
                 idempotency_store[k].request_hash = GenerateRequestHash([ord |-> o, c |-> c])
       ELSE /\ k \in DOMAIN cache
            /\ ~Expired(cache[k])
            /\ \E o \in {1, 2} : cache[k].requestHash = HashRequest([ord |-> o, c |-> c])

\* C25: on both services two bodies that are equal as JSON values but differ
\* in the order of their object keys have the same request hash: a repeat of
\* a key with the body re-ordered is replayed, not rejected as a conflict.
C25_ReorderedReplayed ==
  [][\A r \in Slots :
       (/\ Arrives(r)
        /\ reqs'[r].kind \in KeyedPosts
        /\ reqs'[r].kind = "delegate"
             => ValidateDelegate(reqs'[r].key, reqs'[r].body) = "ok"
        /\ SameValueStored(r))
       => /\ reqs'[r].pc = "done"
          /\ reqs'[r].resp.code = "ok"
          /\ IF reqs'[r].kind = "delegate"
               THEN /\ reqs'[r].resp.status = idempotency_store[reqs'[r].key].response_status
                    /\ reqs'[r].resp.body = idempotency_store[reqs'[r].key].response_body
               ELSE /\ reqs'[r].resp.status = cache[reqs'[r].key].responseStatus
                    /\ reqs'[r].resp.body = cache[reqs'[r].key].responseBody]_vars

(***************************************************************************)
(* Payment intents and vault tokens at the PSP.                            *)
(***************************************************************************)
\* C26: a payment intent is inserted with status pending and its status only
\* ever changes from pending to completed; a completed intent never changes
\* again; a vault token's status only ever changes from active to consumed
\* and never back.
C26_StatusOnlyForward ==
  [][/\ Len(payment_intents') >= Len(payment_intents)
     /\ \A i \in 1..Len(payment_intents') :
          IF i > Len(payment_intents)
            THEN payment_intents'[i].status = "pending"
            ELSE \/ payment_intents'[i] = payment_intents[i]
                 \/ /\ payment_intents[i].status = "pending"
                    /\ payment_intents'[i] =
                         [vault_token_id |-> payment_intents[i].vault_token_id,
                          status |-> "completed",
                          amount |-> payment_intents[i].amount,
                          currency |-> payment_intents[i].currency]
     /\ Len(vault_tokens') >= Len(vault_tokens)
     /\ \A t \in 1..Len(vault_tokens') :
          IF t > Len(vault_tokens)
            THEN vault_tokens'[t].status = "active"
            ELSE \/ vault_tokens'[t] = vault_tokens[t]
                 \/ /\ vault_tokens[t].status = "active"
                    /\ vault_tokens'[t] =
                         [id |-> vault_tokens[t].id,
                          allowance |-> vault_tokens[t].allowance,
                          idempotency_key |-> vault_tokens[t].idempotency_key,
                          status |-> "consumed"]]_vars

\* One intent is completed and its token consumed while a second intent on
\* the same token is still pending
C26_Witness ==
  \E i, j \in 1..Len(payment_intents) :
    /\ payment_intents[i].status = "completed"
    /\ payment_intents[j].status = "pending"
    /\ payment_intents[j].vault_token_id = payment_intents[i].vault_token_id
    /\ vault_tokens[payment_intents[i].vault_token_id].status = "consumed"

\* C27: create_and_process_payment_intent on a token that is not consumed,
\* called when the time is past allowance.expires_at, fails with
\* vault_token_expired, inserts no payment intent and leaves the token's
\* status unchanged; on a token that is both consumed and expired it fails
\* with vault_token_already_used; an unknown token id is rejected with
\* invalid_vault_token before any other check.
C27_ExpiredToken ==
  [][\A r \in Slots :
       (/\ reqs[r].pc = "pi_validate"
        /\ reqs[r].kind = "charge"
        /\ reqs'[r] # reqs[r])
       => LET t == reqs[r].loc.token
          IN /\ t \notin 1..Len(vault_tokens) => Rejected(r, "invalid_vault_token")
             /\ (/\ t \in 1..Len(vault_tokens)
                 /\ vault_tokens[t].status = "consumed"
                 /\ now > vault_tokens[t].allowance.expires_at)
                => Rejected(r, "vault_token_already_used")
             /\ (/\ t \in 1..Len(vault_tokens)
                 /\ vault_tokens[t].status # "consumed"
                 /\ now > vault_tokens[t].allowance.expires_at)
                => Rejected(r, "vault_token_expired")]_vars

\* A call that arrived after the expiry of a consumed token was answered
\* vault_token_already_used
C27_Witness ==
  \E r \in Slots :
    /\ reqs[r].kind = "charge" /\ reqs[r].pc = "done"
    /\ reqs[r].loc.token \in 1..Len(vault_tokens)
    /\ reqs[r].loc.at > vault_tokens[reqs[r].loc.token].allowance.expires_at
    /\ vault_tokens[reqs[r].loc.token].status = "consumed"
    /\ reqs[r].resp.code = "vault_token_already_used"
    /\ Cardinality(IntentsOf(reqs[r].loc.token, {"pending", "completed"})) = 1

\* A call that arrived after the expiry of an active token was answered
\* vault_token_expired and the token has no intent
C27_WitnessExpired ==
  \E r \in Slots :
    /\ reqs[r].kind = "charge" /\ reqs[r].pc = "done"
    /\ reqs[r].loc.token \in 1..Len(vault_tokens)
    /\ reqs[r].loc.at > vault_tokens[reqs[r].loc.token].allowance.expires_at
    /\ vault_tokens[reqs[r].loc.token].status = "active"
    /\ reqs[r].resp.code = "vault_token_expired"
    /\ IntentsOf(reqs[r].loc.token, {"pending", "completed"}) = {}

(***************************************************************************)
(* Properties of the pricing functions.                                    *)
(***************************************************************************)
\* C28: generateOptions(requiresShipping, address) returns the empty list
\* when shipping is required and no address is present; exactly
\* standard_shipping with subtotal 500 then express_shipping with subtotal
\* 1500 when shipping is required and an address is present; exactly one
\* digital_delivery option with subtotal, tax and total 0 when shipping is
\* not required; and every returned option has total = subtotal + tax.
C28_GenerateOptions ==
  pricing.pc \in {"calculateTotals", "done"} =>
    LET options == pricing.options
    IN /\ (pricing.requiresShipping /\ pricing.address = None) => options = <<>>
       /\ (pricing.requiresShipping /\ pricing.address # None) =>
            /\ Len(options) = 2
            /\ options[1].id = "standard_shipping" /\ options[1].subtotal = 500
            /\ options[2].id = "express_shipping" /\ options[2].subtotal = 1500
       /\ ~pricing.requiresShipping =>
            /\ Len(options) = 1
            /\ options[1].id = "digital_delivery"
            /\ options[1].subtotal = 0 /\ options[1].tax = 0 /\ options[1].total = 0
       /\ \A i \in 1..Len(options) :
            options[i].total = options[i].subtotal + options[i].tax

\* Options were generated for a cart that ships to a taxed address
C28_Witness ==
  /\ pricing.pc = "calculateTotals"
  /\ pricing.requiresShipping /\ pricing.address = "CA"
  /\ Len(pricing.options) = 2
  /\ pricing.options[1].total = 550 /\ pricing.options[2].total = 1650

\* C29: the order-level tax is 10%, rounded to the nearest minor unit, of
\* the items subtotal plus the cost of the selected fulfillment option when
\* the fulfillment address's state is "CA", and 0 in every other case,
\* including when no address is present.
C29_OrderTax ==
  pricing.pc = "done" =>
    LET taxable == TotalsAmount(pricing.totals, "subtotal")
                     + GetFulfillmentCost(pricing.option, pricing.options)
        tax == TotalsAmount(pricing.totals, "tax")
    IN IF pricing.address = "CA"
         THEN taxable - 10 * tax \in -5..4
         ELSE tax = 0

\* The tax of a CA order whose tenth falls on a half unit, shipping included
C29_Witness ==
  /\ pricing.pc = "done"
  /\ pricing.address = "CA"
  /\ TotalsAmount(pricing.totals, "subtotal") = 14995
  /\ GetFulfillmentCost(pricing.option, pricing.options) = 500
  /\ TotalsAmount(pricing.totals, "tax") = 1550
  /\ TotalsAmount(pricing.totals, "total") = 17045

(***************************************************************************)
(* Properties of delegate_payment.                                         *)
(***************************************************************************)
\* The request in slot r lacks the Idempotency-Key header or carries an
\* allowance whose reason is not one_time or a risk signal whose action is
\* not one of the three
FailsValidation(r) ==
  \/ reqs'[r].key = None
  \/ reqs'[r].body.c.allowance.reason # "one_time"
  \/ \E i \in 1..Len(reqs'[r].body.c.risk_signals) :
       reqs'[r].body.c.risk_signals[i].action \notin {"blocked", "manual_review", "authorized"}

\* C30: a delegate_payment request that fails header or body validation is
\* answered with a structured error and creates neither a vault token nor
\* an idempotency record; a valid request under a key that has no record
\* creates exactly one vault token, with status active and an id that
\* starts with vt_, and stores exactly one idempotency record, under its key.
C30_DelegateValidation ==
  [][\A r \in Slots :
       /\ (Arrives(r) /\ reqs'[r].kind = "delegate")
          => /\ vault_tokens' = vault_tokens
             /\ idempotency_store' = idempotency_store
             /\ FailsValidation(r) =>
                  /\ reqs'[r].pc = "done"
                  /\ reqs'[r].resp.status = 400
                  /\ reqs'[r].resp.code \in {"missing_header", "invalid_allowance_reason",
                                             "invalid_enum_value"}
                  /\ reqs'[r].resp.body = [id |-> 0, error |-> reqs'[r].resp.code]
             /\ (~FailsValidation(r) /\ reqs'[r].key \notin DOMAIN idempotency_store)
                  => reqs'[r].pc = "dp_create"
       /\ (reqs[r].pc = "dp_create" /\ reqs'[r].pc # "dp_create")
          => /\ reqs'[r].pc = "dp_store"
             /\ Len(vault_tokens') = Len(vault_tokens) + 1
             /\ \A t \in 1..Len(vault_tokens) : vault_tokens'[t] = vault_tokens[t]
             /\ reqs'[r].loc.token = Len(vault_tokens')
             /\ vault_tokens'[Len(vault_tokens')].status = "active"
             /\ vault_tokens'[Len(vault_tokens')].id.prefix = "vt_"
             /\ vault_tokens'[Len(vault_tokens')].idempotency_key = reqs[r].key
             /\ \A t \in 1..Len(vault_tokens) :
                  vault_tokens[t].id # vault_tokens'[Len(vault_tokens')].id
             /\ idempotency_store' = idempotency_store
       /\ (reqs[r].pc = "dp_store" /\ reqs'[r].pc # "dp_store")
          => /\ reqs'[r].pc = "done"
             /\ reqs'[r].resp.status = 201
             /\ reqs'[r].resp.body.id = reqs[r].loc.token
             /\ vault_tokens' = vault_tokens
             /\ reqs[r].key \notin DOMAIN idempotency_store
             /\ DOMAIN idempotency_store' = DOMAIN idempotency_store \cup {reqs[r].key}
             /\ \A k \in DOMAIN idempotency_store :
                  idempotency_store'[k] = idempotency_store[k]
             /\ idempotency_store'[reqs[r].key].response_status = 201
             /\ idempotency_store'[reqs[r].key].response_body = reqs'[r].resp.body]_vars

\* A valid request was answered 201 with its one active token and its record
\* stored, and a later request that failed validation left both tables alone
C30_Witness ==
  \E r \in Slots :
    /\ reqs[r].kind = "delegate" /\ reqs[r].pc = "done"
    /\ reqs[r].resp.status = 400
    /\ reqs[r].resp.code = "invalid_allowance_reason"
    /\ reqs[r].key \notin DOMAIN idempotency_store
    /\ TokensOf(reqs[r].key) = {}
    /\ \E k \in DOMAIN idempotency_store :
         /\ idempotency_store[k].response_status = 201
         /\ Cardinality(TokensOf(k)) = 1
         /\ \A t \in TokensOf(k) :
              /\ vault_tokens[t].status = "active"
              /\ vault_tokens[t].id = [prefix |-> "vt_", randomId |-> t]
              /\ idempotency_store[k].response_body.id = t

\* C31: a delegate_payment request whose risk_signals list is empty is
\* rejected with a validation error and no vault token is created for it.
C31_EmptyRiskSignalsRejected ==
  [][\A r \in Slots :
       /\ (/\ Arrives(r)
           /\ reqs'[r].kind = "delegate"
           /\ reqs'[r].key # None
           /\ reqs'[r].body.c.risk_signals = <<>>)
          => /\ reqs'[r].pc = "done"
             /\ reqs'[r].resp.status = 400
       /\ (/\ reqs[r].kind = "delegate"
           /\ reqs[r].body.c.risk_signals = <<>>)
          => vault_tokens' = vault_tokens]_vars

(***************************************************************************)
(* Properties of the Merchant with requests in flight together.            *)
(***************************************************************************)
\* C32: with update, complete and cancel requests on one session in flight
\* together, once the session is stored as completed or canceled its stored
\* status, order reference and line items never change again.
C32_TerminalFrozen ==
  [][\A sid \in 1..Len(checkout_sessions) :
       checkout_sessions[sid].status \in {"completed", "canceled"}
       => /\ checkout_sessions'[sid].status = checkout_sessions[sid].status
          /\ checkout_sessions'[sid].order_id = checkout_sessions[sid].order_id
          /\ checkout_sessions'[sid].line_items = checkout_sessions[sid].line_items]_vars

\* C33: with two complete requests for one session in flight together, at
\* most one order is created for the session and at most one payment intent
\* is completed on its behalf.
C33_OneOrderOneCharge ==
  /\ \A sid \in 1..Len(checkout_sessions) : Cardinality(OrdersOf(sid)) <= 1
  /\ \A r1, r2 \in Slots :
       (/\ reqs[r1].kind = "complete" /\ reqs[r2].kind = "complete"
        /\ reqs[r1].sid = reqs[r2].sid
        /\ reqs[r1].loc.intent \in 1..Len(payment_intents)
        /\ reqs[r2].loc.intent \in 1..Len(payment_intents)
        /\ payment_intents[reqs[r1].loc.intent].status = "completed"
        /\ payment_intents[reqs[r2].loc.intent].status = "completed")
       => r1 = r2

(***************************************************************************)
(* Properties of updateSession.                                            *)
(***************************************************************************)
\* The ids of a list of fulfillment options
OptionIdsOf(options) == {options[i].id : i \in 1..Len(options)}

\* C34: in update, when the effective fulfillment_option_id (the one in the
\* request, else the stored one) is not among the regenerated options, the
\* selected option becomes the first regenerated option, or none when the
\* list is empty, and totals and status are computed with it; an option id
\* that is among the regenerated options is kept.
C34_OptionReplaced ==
  [][\A r \in Slots :
       (reqs[r].pc = "up_read" /\ reqs'[r].pc = "up_save")
       => LET stored == checkout_sessions[reqs[r].sid]
              effective == IF reqs[r].body.c.fulfillment_option_id # None
                             THEN reqs[r].body.c.fulfillment_option_id
                             ELSE stored.fulfillment_option_id
              next == reqs'[r].loc.next
              options == next.fulfillment_options
              selected == next.fulfillment_option_id
              shipping == options = <<>> \/ options[1].type = "shipping"
          IN /\ (effective # None /\ effective \notin OptionIdsOf(options))
                  => selected = IF options = <<>> THEN None ELSE options[1].id
             /\ (effective # None /\ effective \in OptionIdsOf(options))
                  => selected = effective
             /\ TotalsAmount(next.totals, "fulfillment") =
                  IF selected \in OptionIdsOf(options)
                    THEN options[CHOOSE i \in 1..Len(options) :
                                   options[i].id = selected].subtotal
                    ELSE 0
             /\ next.status = "ready_for_payment"
                  <=> /\ Len(next.line_items) >= 1
                      /\ \/ ~shipping
                         \/ next.fulfillment_address # None /\ selected # None]_vars

\* An update asked for express_shipping, which is not among the regenerated
\* options, and the session it built selects the first of them
C34_Witness ==
  \E r \in Slots :
    /\ reqs[r].kind = "update" /\ reqs[r].pc = "up_save"
    /\ reqs[r].body.c.fulfillment_option_id = "express_shipping"
    /\ "express_shipping" \notin OptionIdsOf(reqs[r].loc.next.fulfillment_options)
    /\ reqs[r].loc.next.fulfillment_option_id = reqs[r].loc.next.fulfillment_options[1].id

\* An update whose stored option is not among the regenerated options, which
\* are none, built a session without a selected option
C34_WitnessNone ==
  \E r \in Slots :
    /\ reqs[r].kind = "update" /\ reqs[r].pc = "up_save"
    /\ reqs[r].body.c.fulfillment_option_id = None
    /\ checkout_sessions[reqs[r].sid].fulfillment_option_id # None
    /\ reqs[r].loc.next.fulfillment_options = <<>>
    /\ reqs[r].loc.next.fulfillment_option_id = None
    /\ reqs[r].loc.next.status = "not_ready_for_payment"

\* C35: when a session becomes completed, the amount of the completed payment
\* intent equals the order-level total of the session as it is stored at that
\* moment, also when an update of the session commits while the complete
\* request is waiting for the PSP.
C35_ChargedWhatIsStored ==
  [][\A r \in Slots :
       (reqs[r].pc = "co_commit" /\ reqs'[r].pc # "co_commit")
       => /\ payment_intents[reqs[r].loc.intent].status = "completed"
          /\ payment_intents[reqs[r].loc.intent].amount =
               TotalsAmount(GetSession(reqs[r].sid).totals, "total")]_vars

\* C36: in every reachable PSP state a payment intent with status completed
\* references a vault token whose status is consumed, so that a token with a
\* completed intent never passes the token check of
\* create_and_process_payment_intent.
C36_CompletedMeansConsumed ==
  /\ [](\A i \in 1..Len(payment_intents) :
          payment_intents[i].status = "completed"
          => vault_tokens[payment_intents[i].vault_token_id].status = "consumed")
  /\ [][\A r \in Slots :
          (/\ reqs[r].pc = "pi_validate"
           /\ reqs'[r].pc # "pi_validate"
           /\ IntentsOf(reqs[r].loc.token, {"completed"}) # {})
          => reqs'[r].pc = "done"]_vars

\* The session ids a run can create
SessionIds == 1..MaxReqRollback

\* A complete call for session sid has a completed payment intent at the PSP
Charged(sid) ==
  \E r \in Slots :
    /\ reqs[r].kind = "complete" /\ reqs[r].sid = sid
    /\ reqs[r].loc.intent \in 1..Len(payment_intents)
    /\ payment_intents[reqs[r].loc.intent].status = "completed"

MirrorMatches(m) ==
  /\ Len(activeSessions[m]) = 1
  /\ LET session == activeSessions[m][1]
     IN /\ session.id \in 1..Len(checkout_sessions)
        /\ checkout_sessions[session.id].line_items = session.line_items
        /\ checkout_sessions[session.id].fulfillment_address = session.fulfillment_address
        /\ checkout_sessions[session.id].status = session.status

\* A call of createSession, updateSession, addItemsToCart or refreshSession
\* returns without throwing
McpSucceeds ==
  /\ mcpCall # NoCall
  /\ mcpCall' = NoCall
  /\ mcpCall.op \in {"addItemsToCart", "updateSession", "refreshSession"}
  /\ reqs[mcpCall.slot].resp.status \in 200..299

\* C38: after every successful MerchantSessionService call (createSession,
\* updateSession, addItemsToCart, refreshSession) the mirror of that MCP
\* session has the id, line items, fulfillment address and status of the
\* session stored at the Merchant.
C38_MirrorIsStored ==
  [][\A m \in McpSessionIds :
       (McpSucceeds /\ mcpCall.mcpSessionId = m) => MirrorMatches(m)']_vars

(***************************************************************************)
(* What an update leaves alone.                                            *)
(***************************************************************************)
\* An update request r that supplies a buyer and nothing else saves its session
BuyerOnlyUpdate(r) ==
  /\ reqs[r].kind = "update"
  /\ reqs[r].pc = "up_save"
  /\ reqs'[r].pc = "respond"
  /\ ~reqs[r].body.c.items.given
  /\ reqs[r].body.c.fulfillment_address = None
  /\ reqs[r].body.c.fulfillment_option_id = None
  /\ reqs[r].body.c.buyer # None

\* C39: an update that supplies only buyer changes only the buyer: the stored
\* line items, fulfillment address, selected fulfillment option, totals and
\* status are the same before and after the call.
C39_BuyerOnlyUpdate ==
  [][\A r \in Slots :
       BuyerOnlyUpdate(r) =>
         LET before == checkout_sessions[reqs[r].sid]
             after == checkout_sessions'[reqs[r].sid]
         IN /\ after.line_items = before.line_items
            /\ after.fulfillment_address = before.fulfillment_address
            /\ after.fulfillment_option_id = before.fulfillment_option_id
            /\ after.returned_totals = before.returned_totals
            /\ after.status = before.status]_vars

(***************************************************************************)
(* Payments run to their end.                                              *)
(***************************************************************************)
\* The intent ids a run of payments can create
IntentIds == 1..MaxReqPayment

\* Where a payment call is between its INSERT and its return
PaymentAccepted == {"pi_simulate", "pi_complete", "pi_invalidate"}

\* C40: every payment intent inserted as pending is eventually completed with
\* its vault token consumed, and every accepted
\* create_and_process_payment_intent call eventually returns, when the
\* handler keeps taking steps.
C40_PendingCompletes ==
  /\ \A i \in IntentIds :
       (i \in 1..Len(payment_intents) /\ payment_intents[i].status = "pending")
         ~> (/\ i \in 1..Len(payment_intents)
             /\ payment_intents[i].status = "completed"
             /\ vault_tokens[payment_intents[i].vault_token_id].status = "consumed")
  /\ \A r \in Slots :
       (reqs[r].kind = "charge" /\ reqs[r].pc \in PaymentAccepted)
         ~> (reqs[r].kind = "charge" /\ reqs[r].pc = "done"
             /\ reqs[r].resp.status = 201)

\* Two calls were accepted at the same time and both have returned, their
\* intents completed and the token consumed
C40_Witness ==
  /\ Len(payment_intents) >= 2
  /\ \A i \in 1..Len(payment_intents) :
       /\ payment_intents[i].status = "completed"
       /\ vault_tokens[payment_intents[i].vault_token_id].status = "consumed"
  /\ \A r \in Slots : reqs[r].kind = "charge" /\ reqs[r].pc = "done"
                       /\ reqs[r].resp.status = 201

====
